---- MODULE Spec2Model ----
(***************************************************************************)
(* Fantasy-Football-Helper: roster normalization (processRoster), the      *)
(* win-probability display of the team page, the request handlers of the   *)
(* server, the schedule estimator (getCurrentNFLWeek), the waiver-wire     *)
(* ranker and the trade suggestion engine, modelled from server/routes.ts  *)
(* (latest revision) and client/src/pages/team.tsx.                        *)
(*                                                                         *)
(* JavaScript values.  A value that may be null/undefined is a sequence of *)
(* length at most one: None for null/undefined, Some(v) for the value v.   *)
(* Points are integers (tenths of a fantasy point).                        *)
(***************************************************************************)
EXTENDS Integers, Sequences, FiniteSets, TLC

None == << >>

Some(v) == << v >>

\* `a ?? b`
Coalesce(a, b) == IF a # None THEN a ELSE b

\* truthiness of a string-valued property: present and not ""
TruthyStr(s) == s # None /\ s[1] # ""

\* truthiness of a number-valued property: present and not 0
TruthyNum(n) == n # None /\ n[1] # 0

\* `o?.f`
Opt(o, f) == IF o = None THEN None ELSE o[1][f]

(***************************************************************************)
(* Static tables                                                           *)
(***************************************************************************)
NFL_TEAM_NAMES ==
  [i \in ((1..30) \cup {33, 34}) |->
     CASE i = 1 -> "ATL" [] i = 2 -> "BUF" [] i = 3 -> "CHI" [] i = 4 -> "CIN"
       [] i = 5 -> "CLE" [] i = 6 -> "DAL" [] i = 7 -> "DEN" [] i = 8 -> "DET"
       [] i = 9 -> "GB" [] i = 10 -> "TEN" [] i = 11 -> "IND" [] i = 12 -> "KC"
       [] i = 13 -> "LV" [] i = 14 -> "LAR" [] i = 15 -> "MIA" [] i = 16 -> "MIN"
       [] i = 17 -> "NE" [] i = 18 -> "NO" [] i = 19 -> "NYG" [] i = 20 -> "NYJ"
       [] i = 21 -> "PHI" [] i = 22 -> "ARI" [] i = 23 -> "PIT" [] i = 24 -> "LAC"
       [] i = 25 -> "SF" [] i = 26 -> "SEA" [] i = 27 -> "TB" [] i = 28 -> "WSH"
       [] i = 29 -> "CAR" [] i = 30 -> "JAX" [] i = 33 -> "BAL" [] i = 34 -> "HOU"]

\* `NFL_TEAM_NAMES[id]`: undefined (None) for an id outside the table
TeamName(id) == IF id \in DOMAIN NFL_TEAM_NAMES THEN Some(NFL_TEAM_NAMES[id]) ELSE None

\* the rosteredPosition -> slot id table of the teams-endpoint branch
posMap ==
  [s \in {"QB", "RB", "WR", "TE", "FLEX", "D/ST", "K", "Bench", "BE", "IR"} |->
     CASE s = "QB" -> 0 [] s = "RB" -> 2 [] s = "WR" -> 4 [] s = "TE" -> 6
       [] s = "FLEX" -> 23 [] s = "D/ST" -> 16 [] s = "K" -> 17
       [] s = "Bench" -> 20 [] s = "BE" -> 20 [] s = "IR" -> 21]

BENCH == 20

IR == 21

FLEX == 23

\* `defaultPosition.split('/')` on the position labels that occur
Split(s) ==
  CASE s = "RB/WR" -> << "RB", "WR" >>
    [] s = "WR/TE" -> << "WR", "TE" >>
    [] s = "D/ST" -> << "D", "ST" >>
    [] OTHER -> << s >>

\* `defaultPosition.includes('D/ST')` on the position labels that occur
IncludesDST(s) == s = "D/ST"

(***************************************************************************)
(* Raw roster entries                                                      *)
(***************************************************************************)
NoPlayer ==
  [id |-> None, fullName |-> None, firstName |-> None, lastName |-> None,
   proTeamId |-> None, proTeam |-> None, opponentProTeamId |-> None,
   defaultPosition |-> None, eligiblePositions |-> None,
   totalPoints |-> None, projectedPointBreakdown |-> None,
   projectedPoints |-> None]

EmptyEntry ==
  [id |-> None, fullName |-> None, firstName |-> None, lastName |-> None,
   proTeamId |-> None, proTeam |-> None, opponentProTeamId |-> None,
   defaultPosition |-> None, eligiblePositions |-> None,
   totalPoints |-> None, projectedPointBreakdown |-> None,
   projectedPoints |-> None,
   rosteredPosition |-> None, playerPoolEntry |-> None, player |-> None,
   lineupSlotId |-> None, slot |-> None, points |-> None,
   appliedStatTotal |-> None, entry |-> None, lineupSlot |-> None,
   slotCategoryId |-> None]

(***************************************************************************)
(* Property reads.  A read yields the value read and whether the read      *)
(* throws a TypeError (a plain `o.f` on a null/undefined receiver).        *)
(***************************************************************************)
\* `o?.f`
OptGet(o, f) == [threw |-> FALSE, v |-> Opt(o, f)]

\* `o.f`
Get(o, f) == [threw |-> o = None, v |-> Opt(o, f)]

(***************************************************************************)
(* processRoster: normalization of one entry (the body of roster.map)      *)
(***************************************************************************)
\* line 46: the entry exposes name-like fields directly (teams endpoint)
isTeamsShape(entry) ==
  TruthyStr(entry.fullName) \/ TruthyStr(entry.firstName) \/ TruthyStr(entry.lastName)

\* line 59 written without the optional chain: `entry.playerPoolEntry.player`
poolPlayer_strict(entry) == Get(entry.playerPoolEntry, "player")

\* line 59: `entry.playerPoolEntry?.player`
poolPlayer(entry) == OptGet(entry.playerPoolEntry, "player")

\* which branch of lines 46-67 is taken
branch(entry) ==
  IF isTeamsShape(entry) THEN "teams"
  ELSE IF poolPlayer(entry).v # None THEN "pool"
  ELSE IF entry.player # None THEN "player"
  ELSE "none"

\* lines 42-67: the player object (None when no branch matches)
player(entry) ==
  CASE branch(entry) = "teams" -> Some(entry)
    [] branch(entry) = "pool" -> Get(entry.playerPoolEntry, "player").v
    [] branch(entry) = "player" -> entry.player
    [] OTHER -> None

\* lines 43-67: the lineup slot id, bench by default
lineupSlotId(entry) ==
  CASE branch(entry) = "teams" ->
         IF TruthyStr(entry.rosteredPosition)
         THEN IF entry.rosteredPosition[1] \in DOMAIN posMap
              THEN posMap[entry.rosteredPosition[1]]
              ELSE BENCH
         ELSE BENCH
    [] branch(entry) = "pool" -> Coalesce(entry.lineupSlotId, Some(BENCH))[1]
    [] branch(entry) = "player" ->
         Coalesce(entry.lineupSlotId, Coalesce(entry.slot, Some(BENCH)))[1]
    [] OTHER -> BENCH

\* `player?.f`
playerProp(entry, f) == OptGet(player(entry), f)

\* `player.f`, read inside a guard of the code
playerField(entry, f) == Get(player(entry), f)

\* line 70 reading `player?.proTeam` only
nflTeamId_proTeam(entry) == playerProp(entry, "proTeam").v

\* line 70
nflTeamId(entry) ==
  Coalesce(playerProp(entry, "proTeamId").v, playerProp(entry, "proTeam").v)

\* line 71
opponentTeamId(entry) == playerProp(entry, "opponentProTeamId").v

\* `nflTeamId && NFL_TEAM_NAMES[nflTeamId]`
knownTeam(id) == TruthyNum(id) /\ TeamName(id[1]) # None

\* lines 74-87: the display name
playerName(entry) ==
  IF player(entry) = None THEN Some("Empty Slot")
  ELSE IF TruthyStr(playerField(entry, "fullName").v)
       THEN playerField(entry, "fullName").v
  ELSE IF TruthyStr(playerField(entry, "firstName").v)
          /\ TruthyStr(playerField(entry, "lastName").v)
       THEN Some(playerField(entry, "firstName").v[1] \o " "
                 \o playerField(entry, "lastName").v[1])
  ELSE IF lineupSlotId(entry) = 16 /\ knownTeam(nflTeamId(entry))
       THEN Some(TeamName(nflTeamId(entry)[1])[1] \o " D/ST")
  ELSE IF TruthyStr(playerField(entry, "lastName").v)
       THEN playerField(entry, "lastName").v
  ELSE IF knownTeam(nflTeamId(entry))
       THEN Some(TeamName(nflTeamId(entry)[1])[1] \o " D/ST")
  ELSE Some("Empty Slot")

StandardPositions == {"QB", "RB", "WR", "TE", "K"}

EligibleStandard == {"QB", "RB", "WR", "TE", "K", "D/ST", "DEF"}

\* the first element of seq that is in S, None when there is none
RECURSIVE FirstIn(_, _)
FirstIn(seq, S) ==
  IF seq = << >> THEN None
  ELSE IF Head(seq) \in S THEN Some(Head(seq))
  ELSE FirstIn(Tail(seq), S)

\* lines 93-107: position from defaultPosition
fromDefaultPosition(entry) ==
  LET dp == playerProp(entry, "defaultPosition").v
  IN IF ~TruthyStr(dp) THEN None
     ELSE IF FirstIn(Split(playerField(entry, "defaultPosition").v[1]),
                     StandardPositions) # None
          THEN FirstIn(Split(playerField(entry, "defaultPosition").v[1]),
                       StandardPositions)
     ELSE IF IncludesDST(playerField(entry, "defaultPosition").v[1])
          THEN Some("D/ST")
     ELSE None

\* lines 110-117: position from eligiblePositions
fromEligiblePositions(entry) ==
  LET ep == playerProp(entry, "eligiblePositions").v
  IN IF ep = None THEN None
     ELSE LET pos == FirstIn(playerField(entry, "eligiblePositions").v[1],
                             EligibleStandard)
          IN IF pos = None THEN None
             ELSE IF pos[1] = "DEF" THEN Some("D/ST") ELSE pos

\* lines 120-127: position inferred from a dedicated lineup slot
fromLineupSlot(entry) ==
  LET s == lineupSlotId(entry)
  IN IF s < BENCH
     THEN CASE s = 0 -> Some("QB") [] s = 2 -> Some("RB") [] s = 4 -> Some("WR")
            [] s = 6 -> Some("TE") [] s = 16 -> Some("D/ST") [] s = 17 -> Some("K")
            [] OTHER -> None
     ELSE None

\* lines 90-127: the real position, 'N/A' when nothing resolves
actualPosition(entry) ==
  Coalesce(fromDefaultPosition(entry),
    Coalesce(fromEligiblePositions(entry),
      Coalesce(fromLineupSlot(entry), Some("N/A"))))

\* lines 130-134 and 179: `parseFloat(totalPoints) || 0` of a number is the number
totalPoints(entry) ==
  Coalesce(entry.totalPoints,
    Coalesce(entry.points,
      Coalesce(entry.appliedStatTotal,
        Coalesce(playerProp(entry, "totalPoints").v, Some(0)))))[1]

\* `o?.projectedPointBreakdown` is present, whatever its usesPoints flag
usesPoints_present(o) == Opt(o, "projectedPointBreakdown") # None

\* `o?.projectedPointBreakdown?.usesPoints` is truthy
usesPoints(o) ==
  /\ Opt(o, "projectedPointBreakdown") # None
  /\ Opt(o, "projectedPointBreakdown")[1].usesPoints

\* the reduce over Object.entries(breakdown) without the usesPoints key:
\* numeric values are added, any other value counts 0
RECURSIVE sumBreakdown(_)
sumBreakdown(stats) ==
  IF stats = << >> THEN 0
  ELSE (IF Head(stats) # None THEN Head(stats)[1] ELSE 0) + sumBreakdown(Tail(stats))

\* lines 137-166 and 180
projectedPoints(entry) ==
  IF usesPoints(player(entry))
  THEN sumBreakdown(playerField(entry, "projectedPointBreakdown").v[1].stats)
  ELSE IF usesPoints(Some(entry))
  THEN sumBreakdown(entry.projectedPointBreakdown[1].stats)
  ELSE IF usesPoints(poolPlayer(entry).v)
  THEN sumBreakdown(Get(Get(entry.playerPoolEntry, "player").v,
                        "projectedPointBreakdown").v[1].stats)
  ELSE Coalesce(entry.projectedPoints,
         Coalesce(playerProp(entry, "projectedPoints").v,
           Coalesce(Opt(poolPlayer(entry).v, "projectedPoints"), Some(0))))[1]

\* line 169 with the bench slot counted as active
isStarter_inclusive(entry) == lineupSlotId(entry) <= BENCH /\ lineupSlotId(entry) # IR

\* line 169
isStarter(entry) == lineupSlotId(entry) < BENCH /\ lineupSlotId(entry) # IR

\* line 177
nflTeam(entry) ==
  IF TruthyNum(nflTeamId(entry))
  THEN Coalesce(TeamName(nflTeamId(entry)[1]), Some("FA"))
  ELSE Some("FA")

\* line 178: the abbreviation, null without a team id, undefined for an id
\* outside the table
opponent(entry) ==
  IF TruthyNum(opponentTeamId(entry))
  THEN IF TeamName(opponentTeamId(entry)[1]) # None
       THEN [kind |-> "string", v |-> TeamName(opponentTeamId(entry)[1])[1]]
       ELSE [kind |-> "undefined"]
  ELSE [kind |-> "null"]

\* a read of the map callback throws: every read the callback evaluates on
\* the path it takes for this entry
raised(entry) ==
  \/ ~isTeamsShape(entry) /\ poolPlayer(entry).threw
  \/ branch(entry) = "pool" /\ Get(entry.playerPoolEntry, "player").threw
  \/ \E f \in {"proTeamId", "proTeam", "opponentProTeamId", "defaultPosition",
               "eligiblePositions", "totalPoints", "projectedPoints", "id"} :
        playerProp(entry, f).threw
  \/ player(entry) # None
     /\ \E f \in {"fullName", "firstName", "lastName"} : playerField(entry, f).threw
  \/ TruthyStr(playerProp(entry, "defaultPosition").v)
     /\ playerField(entry, "defaultPosition").threw
  \/ playerProp(entry, "eligiblePositions").v # None
     /\ playerField(entry, "eligiblePositions").threw
  \/ usesPoints(player(entry)) /\ playerField(entry, "projectedPointBreakdown").threw
  \/ /\ ~usesPoints(player(entry)) /\ ~usesPoints(Some(entry))
     /\ usesPoints(poolPlayer(entry).v)
     /\ \/ Get(entry.playerPoolEntry, "player").threw
        \/ Get(Get(entry.playerPoolEntry, "player").v, "projectedPointBreakdown").threw

\* lines 171-182: the normalized record
normalize(entry) ==
  [playerId |-> playerProp(entry, "id").v,
   playerName |-> playerName(entry),
   position |-> actualPosition(entry),
   lineupSlotId |-> lineupSlotId(entry),
   isStarter |-> isStarter(entry),
   nflTeam |-> nflTeam(entry),
   opponent |-> opponent(entry),
   totalPoints |-> totalPoints(entry),
   projectedPoints |-> projectedPoints(entry),
   slotCategoryId |-> lineupSlotId(entry)]

\* the comparator with the slot ids subtracted the other way round
compare_descending(a, b) ==
  IF a.isStarter # b.isStarter
  THEN (IF a.isStarter THEN -1 ELSE 1)
  ELSE b.lineupSlotId - a.lineupSlotId

\* lines 183-189: the sort comparator
compare(a, b) ==
  IF a.isStarter # b.isStarter
  THEN (IF a.isStarter THEN -1 ELSE 1)
  ELSE a.lineupSlotId - b.lineupSlotId

\* x inserted into a sorted list after every element that does not sort after it
RECURSIVE insert(_, _)
insert(sorted, x) ==
  IF sorted = << >> THEN << x >>
  ELSE IF compare(Head(sorted), x) > 0 THEN << x >> \o sorted
  ELSE << Head(sorted) >> \o insert(Tail(sorted), x)

\* Array.prototype.sort with the comparator: a stable sort
RECURSIVE sort(_)
sort(list) ==
  IF list = << >> THEN << >>
  ELSE insert(sort(SubSeq(list, 1, Len(list) - 1)), list[Len(list)])

\* lines 35-190.  A null or non-array roster is the empty list here, and
\* both give [].  threw: the map callback threw for some entry.
processRoster(r) ==
  IF \E i \in 1..Len(r) : raised(r[i])
  THEN [threw |-> TRUE, value |-> << >>]
  ELSE [threw |-> FALSE, value |-> sort([i \in 1..Len(r) |-> normalize(r[i])])]

(***************************************************************************)
(* Inputs: raw entries in every shape the upstream client returns, with    *)
(* fields present or absent                                                *)
(***************************************************************************)
MaxRosterLen == 3

NameVariants ==
  { [fullName |-> Some("A. Player"), firstName |-> Some("A."), lastName |-> Some("Player")],
    [fullName |-> None, firstName |-> Some("B."), lastName |-> Some("Back")],
    [fullName |-> None, firstName |-> None, lastName |-> Some("Cole")],
    [fullName |-> Some(""), firstName |-> Some("Dee"), lastName |-> None],
    [fullName |-> None, firstName |-> None, lastName |-> None] }

TeamVariants ==
  { [proTeamId |-> Some(9), proTeam |-> None, opponentProTeamId |-> Some(3)],
    [proTeamId |-> None, proTeam |-> Some(4), opponentProTeamId |-> None],
    [proTeamId |-> Some(99), proTeam |-> Some(4), opponentProTeamId |-> Some(31)],
    [proTeamId |-> None, proTeam |-> None, opponentProTeamId |-> Some(0)] }

PositionVariants ==
  { [defaultPosition |-> Some("RB"), eligiblePositions |-> None],
    [defaultPosition |-> Some("RB/WR"), eligiblePositions |-> Some(<< "TE" >>)],
    [defaultPosition |-> Some("D/ST"), eligiblePositions |-> None],
    [defaultPosition |-> Some("XX"), eligiblePositions |-> Some(<< "FLEX", "DEF" >>)],
    [defaultPosition |-> Some(""), eligiblePositions |-> Some(<< "BE", "WR" >>)],
    [defaultPosition |-> None, eligiblePositions |-> Some(<< "IR" >>)],
    [defaultPosition |-> None, eligiblePositions |-> None] }

Breakdown(u, st) == Some([usesPoints |-> u, stats |-> st])

PointsVariants ==
  { [totalPoints |-> None, projectedPointBreakdown |-> None, projectedPoints |-> None],
    [totalPoints |-> Some(1204),
     projectedPointBreakdown |-> Breakdown(TRUE, << Some(50), None, Some(31) >>),
     projectedPoints |-> Some(70)],
    [totalPoints |-> Some(0),
     projectedPointBreakdown |-> Breakdown(FALSE, << Some(9) >>),
     projectedPoints |-> Some(64)] }

\* the player objects
Players ==
  { [id |-> IF n.lastName = None THEN None ELSE Some(7),
     fullName |-> n.fullName, firstName |-> n.firstName, lastName |-> n.lastName,
     proTeamId |-> t.proTeamId, proTeam |-> t.proTeam,
     opponentProTeamId |-> t.opponentProTeamId,
     defaultPosition |-> d.defaultPosition, eligiblePositions |-> d.eligiblePositions,
     totalPoints |-> q.totalPoints,
     projectedPointBreakdown |-> q.projectedPointBreakdown,
     projectedPoints |-> q.projectedPoints] :
    n \in NameVariants, t \in TeamVariants, d \in PositionVariants, q \in PointsVariants }

\* the entry-level fields of an entry
EntryLevel ==
  [rosteredPosition |-> None, playerPoolEntry |-> None, player |-> None,
   lineupSlotId |-> None, slot |-> None, points |-> None,
   appliedStatTotal |-> None, entry |-> None, lineupSlot |-> None,
   slotCategoryId |-> None]

\* an entry with the player-like fields of p and the entry-level fields of x
Entry(p, x) ==
  [id |-> p.id, fullName |-> p.fullName, firstName |-> p.firstName,
   lastName |-> p.lastName, proTeamId |-> p.proTeamId, proTeam |-> p.proTeam,
   opponentProTeamId |-> p.opponentProTeamId,
   defaultPosition |-> p.defaultPosition, eligiblePositions |-> p.eligiblePositions,
   totalPoints |-> p.totalPoints,
   projectedPointBreakdown |-> p.projectedPointBreakdown,
   projectedPoints |-> p.projectedPoints,
   rosteredPosition |-> x.rosteredPosition, playerPoolEntry |-> x.playerPoolEntry,
   player |-> x.player, lineupSlotId |-> x.lineupSlotId, slot |-> x.slot,
   points |-> x.points, appliedStatTotal |-> x.appliedStatTotal,
   entry |-> x.entry, lineupSlot |-> x.lineupSlot,
   slotCategoryId |-> x.slotCategoryId]

RosteredPositions == {None, Some("QB"), Some("FLEX"), Some("D/ST"), Some("Bench"),
                      Some("IR"), Some("UTIL")}

SlotIds == {None, Some(0), Some(2), Some(4), Some(6), Some(16), Some(17), Some(20),
            Some(21), Some(23)}

\* the entry-level point fields of the matchup endpoint
EntryPoints ==
  { [NoPlayer EXCEPT !.totalPoints = q.totalPoints,
                     !.projectedPointBreakdown = q.projectedPointBreakdown,
                     !.projectedPoints = q.projectedPoints] : q \in PointsVariants }

\* teams endpoint: the player's fields sit on the entry itself
TeamsEntries ==
  { Entry(p, [EntryLevel EXCEPT !.rosteredPosition = rp, !.lineupSlotId = l]) :
    p \in Players, rp \in RosteredPositions, l \in {None, Some(2)} }

\* matchup endpoint: the player is nested in playerPoolEntry
PoolEntries ==
  { Entry(e, [EntryLevel EXCEPT !.playerPoolEntry = Some([player |-> Some(p)]),
                                !.lineupSlotId = l]) :
    p \in Players, l \in SlotIds, e \in EntryPoints }

\* the player is nested in player
PlayerEntries ==
  { Entry(NoPlayer, [EntryLevel EXCEPT !.player = Some(p), !.lineupSlotId = l[1],
                                       !.slot = l[2], !.points = l[3],
                                       !.appliedStatTotal = l[4]]) :
    p \in Players,
    l \in { << None, None, None, None >>, << None, Some(4), Some(33), Some(44) >>,
            << Some(16), Some(4), None, Some(44) >>, << Some(23), None, None, None >> } }

\* no player anywhere: an empty playerPoolEntry, or nothing at all
BareEntries ==
  { Entry(e, [EntryLevel EXCEPT !.playerPoolEntry = ppe, !.lineupSlotId = l]) :
    e \in EntryPoints, ppe \in {None, Some([player |-> None])}, l \in SlotIds }

\* more than one location carries a player
MixedEntries ==
  { Entry(p, [EntryLevel EXCEPT !.playerPoolEntry = Some([player |-> Some(q)]),
                                !.player = Some(r), !.lineupSlotId = Some(4),
                                !.slot = Some(6), !.rosteredPosition = rp]) :
    p \in {x \in Players : x.totalPoints = None /\ x.proTeamId = Some(9)
                           /\ x.defaultPosition \in {None, Some("RB")}},
    q \in {x \in Players : x.fullName = Some("A. Player") /\ x.totalPoints = Some(0)
                           /\ x.proTeamId = Some(99) /\ x.defaultPosition = Some("D/ST")},
    r \in {x \in Players : x.fullName = None /\ x.lastName = Some("Cole")
                           /\ x.totalPoints = Some(1204) /\ x.proTeam = Some(4)
                           /\ x.proTeamId = None /\ x.defaultPosition = Some("XX")},
    rp \in {None, Some("QB")} }

\* a named player on a known team
NamedPlayers ==
  { x \in Players : /\ x.fullName = Some("A. Player") /\ x.proTeamId = Some(9)
                    /\ x.defaultPosition = Some("RB") }

\* the player is nested one level further down, in entry.playerPoolEntry
NestedEntries ==
  { Entry(NoPlayer,
          [EntryLevel EXCEPT !.entry = Some([playerPoolEntry |-> Some([player |-> Some(p)])]),
                             !.lineupSlotId = l]) :
    p \in NamedPlayers, l \in {None, Some(2)} }

\* the slot is given as lineupSlot or slotCategoryId, or as lineupSlotId
\* next to a rosteredPosition
SlotFieldEntries ==
  { Entry(NoPlayer,
          [EntryLevel EXCEPT !.playerPoolEntry = Some([player |-> Some(p)]),
                             !.lineupSlot = l[1], !.slotCategoryId = l[2],
                             !.slot = l[3]]) :
    p \in NamedPlayers,
    l \in { << Some(2), None, None >>, << None, Some(0), None >>,
            << Some(4), Some(6), Some(17) >>, << None, None, Some(16) >> } }
  \cup
  { Entry(p, [EntryLevel EXCEPT !.lineupSlotId = Some(2), !.rosteredPosition = rp,
                                !.slot = sl]) :
    p \in NamedPlayers, rp \in {None, Some("Bench"), Some("UTIL")},
    sl \in {None, Some(4)} }

Entries == TeamsEntries \cup PoolEntries \cup PlayerEntries \cup BareEntries
           \cup MixedEntries \cup NestedEntries \cup SlotFieldEntries

\* a matchup-endpoint entry with a name and a slot
Slotted(name, l) ==
  Entry(NoPlayer,
        [EntryLevel EXCEPT !.lineupSlotId = l,
           !.playerPoolEntry =
              Some([player |-> Some([NoPlayer EXCEPT !.fullName = Some(name)])])])

\* the entries of the rosters of several entries
LineupEntries ==
  { Slotted("Q", Some(0)), Slotted("R1", Some(2)), Slotted("R2", Some(2)),
    Slotted("F", Some(23)), Slotted("B1", Some(20)), Slotted("B2", None),
    Slotted("I", Some(21)) }

\* all sequences over S of length at most n
RECURSIVE SeqsUpTo(_, _)
SeqsUpTo(S, n) ==
  IF n = 0 THEN { << >> }
  ELSE LET shorter == SeqsUpTo(S, n - 1)
       IN shorter \cup { Append(q, x) : q \in {y \in shorter : Len(y) = n - 1}, x \in S }

Rosters == { << e >> : e \in Entries } \cup SeqsUpTo(LineupEntries, MaxRosterLen)

(***************************************************************************)
(* Team page (client/src/pages/team.tsx): projected totals and the win     *)
(* probability shown for the user's matchup.  Percentages are integers in  *)
(* hundredths of a percent; exp is computed in fixed point.                *)
(***************************************************************************)
\* the fixed-point unit of the exponential
SCALE == 40000

\* SCALE * exp(-sqrt(pi)/36): with variance 18 the exponent
\* 2 * zScore * sqrt(pi/8) is scoreDiff * sqrt(pi)/36 per whole point
DecayPerPoint == 38078

\* SCALE * exp(-sqrt(pi)/360): the same factor per tenth of a point
DecayPerTenth == 39804

\* base^n in fixed point, by squaring
RECURSIVE power(_, _)
power(base, n) ==
  IF n = 0 THEN SCALE
  ELSE LET half == power(base, n \div 2)
           sq == (half * half) \div SCALE
       IN IF n % 2 = 1 THEN (sq * base) \div SCALE ELSE sq

\* SCALE * exp(-d * sqrt(pi)/360) for a difference of d >= 0 tenths
decay(d) == (power(DecayPerPoint, d \div 10) * power(DecayPerTenth, d % 10)) \div SCALE

\* line 290: 0.5 * (1 + tanh(zScore * sqrt(pi/8))) * 100, which is
\* 100 / (1 + exp(-2 * zScore * sqrt(pi/8))); tanh is odd
winProb(scoreDiff) ==
  IF scoreDiff >= 0
  THEN (10000 * SCALE) \div (SCALE + decay(scoreDiff))
  ELSE 10000 - (10000 * SCALE) \div (SCALE + decay(-scoreDiff))

\* lines 280-283: the sum of `p.projectedPoints || 0` over the starters of a
\* roster; 0 for a missing roster
RECURSIVE sumStarters(_)
sumStarters(list) ==
  IF list = << >> THEN 0
  ELSE (IF Head(list).isStarter THEN Head(list).projectedPoints ELSE 0)
       + sumStarters(Tail(list))

projected(r) == IF r = None THEN 0 ELSE sumStarters(r[1])

\* lines 278-279
myRoster(m, home) == IF home THEN m.homeRoster ELSE m.awayRoster

oppRoster(m, home) == IF home THEN m.awayRoster ELSE m.homeRoster

\* `x.toFixed(0)` of a percentage
toFixed0(x) == (x + 50) \div 100

\* line 298: Math.min(Math.max(winProb, 5), 95)
barWidth(w) ==
  LET lo == IF w > 500 THEN w ELSE 500
  IN IF lo < 9500 THEN lo ELSE 9500

\* the badge with `winProb >= 50` for the favourite
badge_inclusive(w) ==
  IF w >= 5000 THEN "Favored to Win"
  ELSE IF w < 5000 THEN "Underdog"
  ELSE "Toss-up"

\* lines 312-318
badge(w) ==
  IF w > 5000 THEN "Favored to Win"
  ELSE IF w < 5000 THEN "Underdog"
  ELSE "Toss-up"

\* lines 425-426: the percentage of the matchup view
winProbability(my, opp) ==
  IF my + opp > 0 THEN (my * 10000) \div (my + opp) ELSE 5000

\* what the page shows for a matchup
render(m, home) ==
  LET my == projected(myRoster(m, home))
      opp == projected(oppRoster(m, home))
      w == winProb(my - opp)
  IN [shown |-> TRUE,
      myProjected |-> my,
      oppProjected |-> opp,
      winProb |-> w,
      barWidth |-> barWidth(w),
      label |-> toFixed0(w),
      badge |-> badge(w),
      matchupPct |-> winProbability(my, opp),
      matchupLabel |-> toFixed0(winProbability(my, opp))]

\* the most players a side of a rendered matchup has
MaxLineup == 2

\* normalized players as the page reads them (tenths of a point)
ViewPlayers ==
  { [isStarter |-> TRUE, projectedPoints |-> 0],
    [isStarter |-> TRUE, projectedPoints |-> 124],
    [isStarter |-> TRUE, projectedPoints |-> 320],
    [isStarter |-> FALSE, projectedPoints |-> 253] }

ViewRosters == {None} \cup { Some(r) : r \in SeqsUpTo(ViewPlayers, MaxLineup) }

(***************************************************************************)
(* Server (registerRoutes): requests, storage and upstream calls           *)
(***************************************************************************)
\* requests served at the same time
Slots == {"a", "b"}

\* requests received in a run
MaxStarted == 3

\* league records ever created
MaxLeagues == 2

UserIds == {"u1", "u2"}

\* league ids as the client sends them
RawLeagueIds == {"101", " 1-01 ", "abc", ""}

\* line 232: `leagueId.trim().replace(/\D/g, '')`
cleanLeagueId(raw) ==
  CASE raw = "101" -> "101"
    [] raw = " 1-01 " -> "101"
    [] OTHER -> ""

RawSeasonIds == {"2024", "1999", ""}

\* line 237: parseInt(seasonId); NaN is None
parseSeason(raw) ==
  CASE raw = "2024" -> Some(2024)
    [] raw = "1999" -> Some(1999)
    [] OTHER -> None

\* `new Date().getFullYear()` while the server runs
CurrentYear == 2024

\* line 238
validSeason(y) == y # None /\ y[1] >= 2000 /\ y[1] <= CurrentYear + 1

\* the errors an ESPN call rejects with, and the error of the handler's timer
TimerError == [message |-> "ESPN API request timed out", status |-> None]

EspnErrors ==
  { [message |-> "Request failed with status code 401", status |-> Some(401)],
    [message |-> "Request failed with status code 404", status |-> Some(404)],
    [message |-> "Request failed with status code 500", status |-> Some(500)],
    [message |-> "timeout of 10000ms exceeded", status |-> None] }

\* `message.includes(sub)` on the messages above
includes(message, sub) ==
  \/ sub = "timeout" /\ message = "timeout of 10000ms exceeded"
  \/ sub = "404" /\ message = "Request failed with status code 404"

\* lines 270-281: the message of the connect handler for a failed ESPN call
connectErrorMessage(err) ==
  IF includes(err.message, "timeout") THEN "ESPN API request timed out. Please try again."
  ELSE IF err.status = Some(401) THEN "League is private and requires authentication"
  ELSE IF err.status = Some(404) \/ includes(err.message, "404")
          \/ includes(err.message, "not found")
       THEN "League not found for season"
  ELSE "Failed to fetch league from ESPN. Please verify your league ID and season year are correct."

\* the team lists ESPN returns (team ids)
EspnTeamLists == { {1, 2}, {2} }

\* team ids a client sends to set-team; line 336: z.number().int().positive()
TeamIdInputs == {0, 1, 3}

validTeamId(t) == t > 0

NoLeague == [id |-> 0, userId |-> "", leagueId |-> "", seasonId |-> 0,
             isSelected |-> 0, userTeamId |-> None]

IdleReq ==
  [route |-> "none", user |-> None, id |-> 0, leagueId |-> "", seasonId |-> 0,
   teamId |-> 0, pc |-> "idle", entered |-> FALSE, league |-> None,
   timer |-> FALSE, fetched |-> FALSE, mutated |-> FALSE, caught |-> "",
   teams |-> {}, status |-> 0, reply |-> ""]

\* the routes behind the isAuthenticated middleware
Protected == {"connect", "select", "setTeam", "matchups", "teams", "waiver", "trade",
              "deleteAccount"}

\* the routes with a league id in the path
LeagueScoped == {"select", "setTeam", "matchups", "teams", "waiver", "trade"}

\* where a request waits for an ESPN call (raced against a timer) or for a
\* Sleeper fetch
EspnWaits == {"espnLeagueInfo", "espnTeams", "espnBoxscore"}

SleeperWaits == {"sleeperTrending", "sleeperPlayers", "sleeperStats"}

\* res.status(code).json(...)
respond(r, code, what) ==
  [r EXCEPT !.pc = "done", !.status = code, !.reply = what]

\* a new request in a free slot
newReq(route, user) == [IdleReq EXCEPT !.route = route, !.user = user, !.pc = "new"]

\* isAuthenticated: 401 without a logged-in user, else the handler runs
authenticated(r) == r.user # None

(***************************************************************************)
(* Schedule estimator (getCurrentNFLWeek).  An instant is a whole number of *)
(* hours since 2023-01-01T00:00Z; the server's zone is a fixed offset from *)
(* UTC in hours.  `new Date('YYYY-MM-DD')` is midnight UTC of that day;     *)
(* getFullYear and getMonth read the local calendar.                       *)
(***************************************************************************)
\* the year instants are counted from
EpochYear == CurrentYear - 1

isLeap(y) == (y % 4 = 0 /\ y % 100 # 0) \/ y % 400 = 0

daysInYear(y) == IF isLeap(y) THEN 366 ELSE 365

\* month m is 0-based, as getMonth returns it
daysInMonth(y, m) ==
  CASE m = 1 -> IF isLeap(y) THEN 29 ELSE 28
    [] m \in {3, 5, 8, 10} -> 30
    [] OTHER -> 31

\* days from the epoch to 1 January of year y
RECURSIVE daysBeforeYear(_)
daysBeforeYear(y) ==
  IF y <= EpochYear THEN 0 ELSE daysBeforeYear(y - 1) + daysInYear(y - 1)

\* days from 1 January of year y to the first of month m
RECURSIVE daysBeforeMonth(_, _)
daysBeforeMonth(y, m) ==
  IF m = 0 THEN 0 ELSE daysBeforeMonth(y, m - 1) + daysInMonth(y, m - 1)

\* `new Date('y-mm-dd')` with mm the 1-based month: midnight UTC
utcMidnight(y, mm, dd) == 24 * (daysBeforeYear(y) + daysBeforeMonth(y, mm - 1) + dd - 1)

\* the local calendar day (days since the epoch) of instant t in a zone
localDay(t, zone) == (t + zone) \div 24

\* the year that holds day number d, counted from year y
RECURSIVE yearFrom(_, _)
yearFrom(d, y) == IF d < daysInYear(y) THEN y ELSE yearFrom(d - daysInYear(y), y + 1)

\* now.getFullYear()
getFullYear(t, zone) == yearFrom(localDay(t, zone), EpochYear)

\* the 0-based month that holds day d of year y, counted from month m
RECURSIVE monthFrom(_, _, _)
monthFrom(d, y, m) ==
  IF d < daysInMonth(y, m) THEN m ELSE monthFrom(d - daysInMonth(y, m), y, m + 1)

\* now.getMonth()
getMonth(t, zone) ==
  LET y == getFullYear(t, zone)
  IN monthFrom(localDay(t, zone) - daysBeforeYear(y), y, 0)

\* now.getDate()
getDate(t, zone) ==
  LET y == getFullYear(t, zone)
      m == getMonth(t, zone)
  IN localDay(t, zone) - daysBeforeYear(y) - daysBeforeMonth(y, m) + 1

\* line 1037 with the season starting in October
seasonStartYear_october(t, zone) ==
  IF getMonth(t, zone) >= 9 THEN getFullYear(t, zone) ELSE getFullYear(t, zone) - 1

\* line 1037
seasonStartYear(t, zone) ==
  IF getMonth(t, zone) >= 8 THEN getFullYear(t, zone) ELSE getFullYear(t, zone) - 1

\* lines 1040-1059: the 18 anchors of the season that starts in year y
weekStarts(y) ==
  << utcMidnight(y, 9, 5), utcMidnight(y, 9, 9), utcMidnight(y, 9, 16),
     utcMidnight(y, 9, 23), utcMidnight(y, 9, 30), utcMidnight(y, 10, 7),
     utcMidnight(y, 10, 14), utcMidnight(y, 10, 21), utcMidnight(y, 10, 28),
     utcMidnight(y, 11, 4), utcMidnight(y, 11, 11), utcMidnight(y, 11, 18),
     utcMidnight(y, 11, 25), utcMidnight(y, 12, 2), utcMidnight(y, 12, 9),
     utcMidnight(y, 12, 16), utcMidnight(y, 12, 23), utcMidnight(y, 12, 30) >>

\* the loop of lines 1062-1066 run upwards: the first anchor reached
scan_upward(t, starts, i) ==
  IF \E j \in 1..i : t >= starts[j]
  THEN CHOOSE j \in 1..i : t >= starts[j] /\ \A k \in 1..(j - 1) : t < starts[k]
  ELSE 1

\* lines 1062-1069: from the last anchor down, the first one reached; 1 when
\* none is
RECURSIVE scan(_, _, _)
scan(t, starts, i) ==
  IF i < 1 THEN 1
  ELSE IF t >= starts[i] THEN i
  ELSE scan(t, starts, i - 1)

\* lines 1031-1070
getCurrentNFLWeek(t, zone) ==
  LET starts == weekStarts(seasonStartYear(t, zone))
  IN scan(t, starts, Len(starts))

\* the offsets from UTC (hours) of the zones the server may run in
Zones == {-8, 0, 9}

\* the calendar years a run of the clock covers
Years == 2

\* the instants of a run: from 1 January of FirstYear (UTC) up to the end of
\* LastYear
FirstYear == CurrentYear

LastYear == CurrentYear + Years - 1

FirstInstant == utcMidnight(FirstYear, 1, 1)

LastInstant == utcMidnight(LastYear + 1, 1, 1) - 1

(***************************************************************************)
(* Suggestions: GET /api/waiver-wire/:id and GET /api/trade-suggestions/:id *)
(* from the point where the league is loaded and owned by the user.  A     *)
(* call carries what the upstream services answer: the Sleeper trending    *)
(* feed, player directory and season stats, and the outcome of the ESPN    *)
(* getTeamsAtWeek call raced against the 15 s timer.                       *)
(***************************************************************************)
\* the element of a singleton: Only({ e : x \in {v} }) is e with x standing
\* for the value of v, computed once, as a `const x = v` does
Only(S) == CHOOSE x \in S : TRUE

\* `x.toFixed(1)` of the non-negative quotient n / d, in tenths
toFixed1(n, d) == (2 * 10 * n + d) \div (2 * d)

\* the comparators of the handlers' Array.prototype.sort calls; a score is a
\* number, a value is a number, a strength is a quotient num / den
cmpBy(mode, a, b) ==
  CASE mode = "score descending" -> b.score - a.score
    [] mode = "value descending" -> b.value - a.value
    [] mode = "strength ascending" -> a.score.num * b.score.den - b.score.num * a.score.den

\* x inserted after every element that does not sort after it
RECURSIVE insertBy(_, _, _)
insertBy(mode, sorted, x) ==
  IF sorted = << >> THEN << x >>
  ELSE IF cmpBy(mode, Head(sorted), x) > 0 THEN << x >> \o sorted
  ELSE << Head(sorted) >> \o insertBy(mode, Tail(sorted), x)

\* Array.prototype.sort with one of the comparators: a stable sort
RECURSIVE sortBy(_, _)
sortBy(mode, list) ==
  IF list = << >> THEN << >>
  ELSE insertBy(mode, sortBy(mode, SubSeq(list, 1, Len(list) - 1)), list[Len(list)])

\* `list.slice(0, n)`
slice(list, n) == SubSeq(list, 1, IF Len(list) < n THEN Len(list) ELSE n)

\* lines 759-762, 996-999 keeping the first n in the order they were found
ranked_unsorted(list, n) == slice(list, n)

\* lines 759-762, 996-999: sort by score, keep the first n
ranked(list, n) == slice(sortBy("score descending", list), n)

\* `list.filter(keep)` for the elements whose index is in keep
RECURSIVE filterIdx(_, _, _)
filterIdx(list, keep, i) ==
  IF i > Len(list) THEN << >>
  ELSE (IF i \in keep THEN << list[i] >> ELSE << >>) \o filterIdx(list, keep, i + 1)

\* `teams.find(t => t.id === league.userTeamId)` that settles for the first
\* team when none has the id
find_first(teams, userTeamId) ==
  IF \E i \in 1..Len(teams) : Some(teams[i].id) = userTeamId
  THEN Some(teams[CHOOSE i \in 1..Len(teams) :
                     /\ Some(teams[i].id) = userTeamId
                     /\ \A j \in 1..(i - 1) : Some(teams[j].id) # userTeamId])
  ELSE IF teams # << >> THEN Some(teams[1]) ELSE None

\* lines 678, 811: `teams.find(t => t.id === league.userTeamId)`
find(teams, userTeamId) ==
  IF \E i \in 1..Len(teams) : Some(teams[i].id) = userTeamId
  THEN Some(teams[CHOOSE i \in 1..Len(teams) :
                     /\ Some(teams[i].id) = userTeamId
                     /\ \A j \in 1..(i - 1) : Some(teams[j].id) # userTeamId])
  ELSE None

\* `team.roster || []`, normalized
rosterOf(team) == processRoster(Coalesce(team.roster, Some(<< >>))[1]).value

(***************************************************************************)
(* Waiver-wire ranker                                                      *)
(***************************************************************************)
\* `players[id]`: undefined for an id the directory does not hold
lookup(players, id) == IF id \in DOMAIN players THEN players[id] ELSE None

\* lines 626-634: statsMap.get(id) after the forEach; a later row replaces
\* an earlier one, rows without a truthy pts_ppr are skipped.  weeklyAvg is
\* points / currentWeek, kept as the pair.
RECURSIVE statsGet(_, _, _)
statsGet(allStats, id, currentWeek) ==
  IF allStats = << >> THEN None
  ELSE LET stat == allStats[Len(allStats)]
       IN IF stat.player_id = id /\ TruthyNum(Opt(stat.stats, "pts_ppr"))
          THEN Some([points |-> stat.stats[1].pts_ppr[1], currentWeek |-> currentWeek])
          ELSE statsGet(SubSeq(allStats, 1, Len(allStats) - 1), id, currentWeek)

\* `${player.first_name || ''} ${player.last_name || ''}`.trim()
trimmedName(p) ==
  LET first == IF TruthyStr(p.first_name) THEN p.first_name[1] ELSE ""
      last == IF TruthyStr(p.last_name) THEN p.last_name[1] ELSE ""
  IN IF first = "" THEN last
     ELSE IF last = "" THEN first
     ELSE first \o " " \o last

\* lines 666, 686, 748: the display name
displayName(pl) ==
  IF pl = None THEN Some("Unknown")
  ELSE IF trimmedName(pl[1]) # "" THEN Some(trimmedName(pl[1]))
  ELSE pl[1].full_name

\* `stats?.weeklyAvg?.toFixed(1) || 'N/A'`: Some(tenths), None for 'N/A'
shownWeeklyAvg(stats) ==
  IF stats = None THEN None
  ELSE Some(toFixed1(stats[1].points, 10 * stats[1].currentWeek))

\* `stats?.points?.toFixed(1) || 'N/A'`: Some(tenths), None for 'N/A'
shownTotal(stats) == IF stats = None THEN None ELSE Some(stats[1].points)

\* lines 661-674 and 681-694: one entry of the trending-only list
trendingEntry(t, players, allStats, currentWeek) ==
  LET pl == lookup(players, t.player_id)
      stats == statsGet(allStats, t.player_id, currentWeek)
  IN [playerId |-> t.player_id,
      name |-> displayName(pl),
      position |-> IF TruthyStr(Opt(pl, "position")) THEN pl[1].position[1]
                   ELSE "N/A",
      team |-> IF TruthyStr(Opt(pl, "team")) THEN pl[1].team[1] ELSE "FA",
      adds |-> t.count,
      weeklyAvg |-> shownWeeklyAvg(stats),
      totalPoints |-> shownTotal(stats),
      recommendation |-> "Trending pickup"]

\* the fallback list: the first 25 of the trending feed
trendingPlayers(trending, players, allStats, currentWeek) ==
  LET head == slice(trending, 25)
  IN [i \in 1..Len(head) |-> trendingEntry(head[i], players, allStats, currentWeek)]

\* lines 699-704: the normalized players of a position
rosterByPosition(list0, pos) ==
  filterIdx(list0, { i \in 1..Len(list0) : list0[i].position = Some(pos) }, 1)

\* the reduce of line 710: the sum of `p.totalPoints || 0`
RECURSIVE sumTotals(_)
sumTotals(list) ==
  IF list = << >> THEN 0 ELSE Head(list).totalPoints + sumTotals(Tail(list))

\* lines 706-720 with the threshold test turned round
weakPositions_above(list0) ==
  { pos \in {"QB", "RB", "WR", "TE"} :
      \/ rosterByPosition(list0, pos) = << >>
      \/ sumTotals(rosterByPosition(list0, pos))
           >= 80 * Len(rosterByPosition(list0, pos)) }

\* lines 706-720: a position of QB, RB, WR, TE is weak when the roster has
\* nobody there or the mean of totalPoints is below 8 points
weakPositions(list0) ==
  { pos \in {"QB", "RB", "WR", "TE"} :
      \/ rosterByPosition(list0, pos) = << >>
      \/ sumTotals(rosterByPosition(list0, pos))
           < 80 * Len(rosterByPosition(list0, pos)) }

Draftable == {"QB", "RB", "WR", "TE", "K", "DEF"}

\* lines 723-756: a candidate, or null.  weeklyAvg * 10 is pts_ppr / week in
\* points; score is kept multiplied by the current week, which is exact:
\* week * count + week * 100 (weak position) + pts_ppr
candidate(t, players, allStats, currentWeek, weak) ==
  LET pl == lookup(players, t.player_id)
      stats == statsGet(allStats, t.player_id, currentWeek)
      position == Opt(pl, "position")
  IN IF pl = None \/ ~TruthyStr(position) \/ position[1] \notin Draftable
     THEN None
     ELSE Some([playerId |-> t.player_id,
                name |-> displayName(pl),
                position |-> position[1],
                team |-> IF TruthyStr(pl[1].team) THEN pl[1].team[1] ELSE "FA",
                adds |-> t.count,
                weeklyAvg |-> shownWeeklyAvg(stats),
                totalPoints |-> shownTotal(stats),
                recommendation |->
                  IF position[1] \in weak
                  THEN "Upgrade weak " \o position[1] \o " position"
                  ELSE "Trending high-value pickup",
                score |-> currentWeek * t.count
                          + (IF position[1] \in weak THEN currentWeek * 100 ELSE 0)
                          + (IF stats # None THEN stats[1].points ELSE 0)])

\* lines 723-757: the candidates in feed order, nulls filtered out
candidates(trending, players, allStats, currentWeek, weak) ==
  LET all == [i \in 1..Len(trending) |->
                candidate(trending[i], players, allStats, currentWeek, weak)]
      kept == filterIdx(all, { i \in 1..Len(all) : all[i] # None }, 1)
  IN [i \in 1..Len(kept) |-> kept[i][1]]

\* lines 658-676 answering with an error instead of the fallback
waiverEspnFailure_500(c, currentWeek) ==
  [status |-> 500, body |-> << >>, weak |-> {}, considered |-> << >>]

\* lines 658-676: the ESPN call rejected or the timer fired
waiverEspnFailure(c, currentWeek) ==
  [status |-> 200,
   body |-> trendingPlayers(c.trending, c.players, c.allStats, currentWeek),
   weak |-> {}, considered |-> << >>]

\* lines 636-762: the handler from the ESPN call on.  weak and considered
\* are the handler's weakPositions and its candidates before the sort.
waiverWire(c, currentWeek) ==
  IF c.espn.kind # "ok" THEN waiverEspnFailure(c, currentWeek)
  ELSE LET myTeam == find(c.espn.teams, c.userTeamId)
       IN IF myTeam = None
          THEN [status |-> 200,
                body |-> trendingPlayers(c.trending, c.players, c.allStats, currentWeek),
                weak |-> {}, considered |-> << >>]
          ELSE LET weak == weakPositions(rosterOf(myTeam[1]))
                   list == candidates(c.trending, c.players, c.allStats, currentWeek, weak)
               IN [status |-> 200,
                   body |-> ranked(list, 25),
                   weak |-> weak, considered |-> list]

(***************************************************************************)
(* Trade suggestion engine.  A value is kept in units of 1 / (100 * week)  *)
(* of a point, which is exact: 0.6 * projectedPoints + 0.4 * totalPoints / *)
(* week with both inputs in tenths is (6 * projected * week + 4 * total) / *)
(* (100 * week).  Averages, fairness and improvements are quotients        *)
(* num / den of such values; thresholds are compared exactly.              *)
(***************************************************************************)
\* n points in the unit of values
points(n, currentWeek) == n * 100 * currentWeek

\* lines 817-831, 878-890: a normalized player with its value
valued(p, currentWeek) ==
  [playerName |-> p.playerName, position |-> p.position, nflTeam |-> p.nflTeam,
   isStarter |-> p.isStarter,
   projectedAvg |-> p.projectedPoints,
   seasonTotal |-> p.totalPoints,
   value |-> IF currentWeek > 0
             THEN 6 * p.projectedPoints * currentWeek + 4 * p.totalPoints
             ELSE 6 * p.projectedPoints]

valuedRoster(team, currentWeek) ==
  Only({ [i \in 1..Len(list) |-> valued(list[i], currentWeek)] :
         list \in { rosterOf(team) } })

RECURSIVE sumValues(_)
sumValues(list) == IF list = << >> THEN 0 ELSE Head(list).value + sumValues(Tail(list))

\* lines 837-856, 896-914: the strength of a position on a valued roster
positionStrength(list, pos, currentWeek) ==
  LET posPlayers == filterIdx(list, { i \in 1..Len(list) : list[i].position = Some(pos) }, 1)
      sortedPlayers == sortBy("value descending", posPlayers)
  IN IF Len(posPlayers) > 0
     THEN [avgValue |-> [num |-> sumValues(sortedPlayers), den |-> Len(sortedPlayers)],
           topValue |-> sortedPlayers[1].value,
           depth |-> Cardinality({ i \in 1..Len(sortedPlayers) :
                                     sortedPlayers[i].value > points(5, currentWeek) }),
           count |-> Len(posPlayers),
           players |-> sortedPlayers]
     ELSE [avgValue |-> [num |-> 0, den |-> 1], topValue |-> 0, depth |-> 0,
           count |-> 0, players |-> << >>]

TradePositions == << "QB", "RB", "WR", "TE" >>

\* the strengths of the four positions, in the order of the forEach
strengths(list, currentWeek) ==
  [i \in 1..4 |-> positionStrength(list, TradePositions[i], currentWeek)]

\* lines 859-867: topValue * 0.5 + avgValue * 0.3 + depth * 2 as a quotient,
\* sorted from the weakest position up
positionRanking(strength, currentWeek) ==
  sortBy("strength ascending",
         [i \in 1..4 |->
            [pos |-> i,
             score |-> [num |-> 5 * strength[i].topValue * strength[i].avgValue.den
                                + 3 * strength[i].avgValue.num
                                + 20 * points(strength[i].depth, currentWeek)
                                     * strength[i].avgValue.den,
                        den |-> 10 * strength[i].avgValue.den]]])

\* `list.slice(1, 3)`
lastTwo_middle(list) == SubSeq(list, 2, 3)

\* `list.slice(-2)`
lastTwo(list) == SubSeq(list, Len(list) - 1, Len(list))

\* lines 923-929: the players of a position a team can give away
tradeable(strength, currentWeek) ==
  slice(filterIdx(strength.players,
                  { i \in 1..Len(strength.players) :
                      /\ strength.players[i].value > points(5, currentWeek)
                      /\ (~strength.players[i].isStarter \/ strength.depth > 2) }, 1),
        4)

abs(x) == IF x < 0 THEN -x ELSE x

\* lines 934-936: 1 - valueDiff / avgValue, or 0 without value
fairness(a, b) ==
  IF a + b > 0 THEN [num |-> (a + b) - 2 * abs(a - b), den |-> a + b]
  ELSE [num |-> 0, den |-> 1]

\* a quotient is above n points
above(q, n, currentWeek) == q.num > points(n, currentWeek) * q.den

\* line 947 with the fairness test dropped
acceptable_anyFairness(fair, a, b, currentWeek) ==
  /\ a > points(4, currentWeek)
  /\ b > points(4, currentWeek)

\* line 947
acceptable(fair, a, b, currentWeek) ==
  /\ 100 * fair.num > 65 * fair.den
  /\ a > points(4, currentWeek)
  /\ b > points(4, currentWeek)

\* line 952 letting a trade through that helps the other side only
emits_either(helpsMe, helpsThem) == helpsMe \/ helpsThem

\* line 952: `helpsMe || mutualBenefit`
emits(helpsMe, helpsThem) == helpsMe \/ (helpsMe /\ helpsThem)

\* line 953
tradeQuality(helpsMe, helpsThem) ==
  IF helpsMe /\ helpsThem THEN "Win-Win"
  ELSE IF helpsMe THEN "Favorable"
  ELSE "Fair"

\* line 986, in thousandths with every term rounded down:
\* fairness * 100 + myImprovement * 5 + bonus + myNeedScore * 10
tradeScore(fair, myImprovement, helpsMe, helpsThem, myTop, currentWeek) ==
  (100000 * fair.num) \div fair.den
  + (50 * myImprovement.num) \div (myImprovement.den * currentWeek)
  + (IF helpsMe /\ helpsThem THEN 30000 ELSE IF helpsMe THEN 20000 ELSE 0)
  + (20 * (points(15, currentWeek) - myTop)) \div (3 * currentWeek)

\* lines 932-989: one pairing of the inner loop
pairing(otherTeam, mine, theirs, weakPos, strongPos, myPlayer, theirPlayer, currentWeek) ==
  LET fair == fairness(myPlayer.value, theirPlayer.value)
      myImprovement ==
        [num |-> theirPlayer.value * mine[weakPos].avgValue.den
                 - mine[weakPos].avgValue.num,
         den |-> mine[weakPos].avgValue.den]
      theirImprovement ==
        [num |-> myPlayer.value * theirs[strongPos].avgValue.den
                 - theirs[strongPos].avgValue.num,
         den |-> theirs[strongPos].avgValue.den]
      helpsMe == above(myImprovement, 1, currentWeek)
      helpsThem == above(theirImprovement, 1, currentWeek)
  IN [teamId |-> otherTeam.id,
      myPlayer |-> myPlayer,
      theirPlayer |-> theirPlayer,
      fairness |-> fair,
      myImprovement |-> myImprovement,
      theirImprovement |-> theirImprovement,
      myWeakPosition |-> TradePositions[weakPos],
      myStrongPosition |-> TradePositions[strongPos],
      emitted |-> /\ acceptable(fair, myPlayer.value, theirPlayer.value, currentWeek)
                  /\ emits(helpsMe, helpsThem),
      tradeQuality |-> tradeQuality(helpsMe, helpsThem),
      score |-> tradeScore(fair, myImprovement, helpsMe, helpsThem,
                           mine[weakPos].topValue, currentWeek)]

\* the concatenation of a list of lists
RECURSIVE flatten(_)
flatten(lists) == IF lists = << >> THEN << >> ELSE Head(lists) \o flatten(Tail(lists))

\* lines 875-994: the pairings the loops evaluate for one other team, in
\* the order of the loops
pairingsWith(otherTeam, mine, weak, strong, currentWeek) ==
  Only({ flatten([wi \in 1..Len(weak) |->
           flatten([si \in 1..Len(strong) |->
             LET myTradeable == tradeable(mine[strong[si]], currentWeek)
                 theirTradeable == tradeable(theirs[weak[wi]], currentWeek)
             IN flatten([mi \in 1..Len(myTradeable) |->
                  [ti \in 1..Len(theirTradeable) |->
                     pairing(otherTeam, mine, theirs, weak[wi], strong[si],
                             myTradeable[mi], theirTradeable[ti], currentWeek)]])])]) :
         theirs \in { strengths(valuedRoster(otherTeam, currentWeek), currentWeek) } })

\* lines 859-870: the two weakest and the two strongest positions
needs(mine, currentWeek) ==
  Only({ [weak |-> [i \in 1..2 |-> ranking[i].pos],
          strong |-> [i \in 1..2 |-> lastTwo(ranking)[i].pos]] :
         ranking \in { positionRanking(mine, currentWeek) } })

\* lines 872-994: the pairings the loops evaluate over the other teams
evaluated(teams, userTeamId, mine, need, currentWeek) ==
  Only({ flatten([i \in 1..Len(others) |->
                    pairingsWith(others[i], mine, need.weak, need.strong, currentWeek)]) :
         others \in { filterIdx(teams, { i \in 1..Len(teams) :
                                           Some(teams[i].id) # userTeamId }, 1) } })

\* lines 947-999: the pairings that pass are the suggestions, ranked
suggested(pairings) ==
  Only({ Only({ [status |-> 200, body |-> ranked(found, 15), pairings |-> all] :
                found \in { filterIdx(all, { i \in 1..Len(all) : all[i].emitted }, 1) } }) :
         all \in { pairings } })

\* lines 806-809: the ESPN call rejected or the timer fired
tradeEspnFailure(c) ==
  [status |-> 500, body |-> "Failed to fetch teams from ESPN", pairings |-> << >>]

\* lines 784-999: the handler from the ESPN call on.  pairings are the
\* pairings the loops evaluated.
tradeSuggestions(c, currentWeek) ==
  IF c.espn.kind # "ok" THEN tradeEspnFailure(c)
  ELSE LET teams == c.espn.teams
           myTeam == find(teams, c.userTeamId)
       IN IF myTeam = None
          THEN [status |-> 200, body |-> << >>, pairings |-> << >>]
          ELSE Only({ Only({ suggested(evaluated(teams, c.userTeamId, mine, need,
                                                 currentWeek)) :
                             need \in { needs(mine, currentWeek) } }) :
                      mine \in { strengths(valuedRoster(myTeam[1], currentWeek),
                                           currentWeek) } })

(***************************************************************************)
(* Inputs of the suggestion handlers                                       *)
(***************************************************************************)
\* the longest trending feed
MaxTrending == 27

\* the most teams a league has besides the user's
MaxOthers == 2

\* a roster entry as getTeamsAtWeek returns it: the player's fields on the
\* entry, points in tenths
TeamPlayer(name, pos, slot, total, proj) ==
  Entry([NoPlayer EXCEPT !.fullName = Some(name), !.defaultPosition = Some(pos),
                         !.totalPoints = Some(total), !.projectedPoints = Some(proj)],
        [EntryLevel EXCEPT !.rosteredPosition = Some(slot)])

\* a team of the league
Team(id, r) == [id |-> id, roster |-> r]

\* what the players of one position can look like on a roster
Group(kind, pos) ==
  CASE kind = "none" -> << >>
    [] kind = "starter" -> << TeamPlayer(pos \o "1", pos, pos, 300, 150) >>
    [] kind = "pair" -> << TeamPlayer(pos \o "2", pos, "Bench", 240, 100),
                           TeamPlayer(pos \o "3", pos, "Bench", 180, 80) >>
    [] kind = "deep" -> << TeamPlayer(pos \o "1", pos, pos, 300, 150),
                           TeamPlayer(pos \o "4", pos, "Bench", 600, 250),
                           TeamPlayer(pos \o "5", pos, "Bench", 90, 60) >>
    [] kind = "low" -> << TeamPlayer(pos \o "6", pos, "Bench", 0, 70) >>

\* the rosters of the teams of a trade call
TradeRosters ==
  { Group(q, "QB") \o Group(r, "RB") \o Group(x, "WR") \o Group(t, "TE")
      \o << TeamPlayer("K1", "K", "K", 400, 80) >> :
    q \in {"none", "starter", "pair"}, r \in {"pair", "deep"},
    x \in {"none", "deep"}, t \in {"none", "pair", "low"} }

\* the league of a trade call: the user's team has id 1
TradeTeams(mine, theirs, n) ==
  << Team(2, Some(theirs)), Team(1, Some(mine)) >>
    \o [i \in 1..(n - 1) |-> Team(2 + i, Some(theirs))]

\* the outcomes of the ESPN call that are not a team list
EspnFailures ==
  { [kind |-> "error", teams |-> << >>, message |-> e.message] : e \in EspnErrors }
    \cup { [kind |-> "timeout", teams |-> << >>, message |-> TimerError.message] }

EspnTeams(teams) == [kind |-> "ok", teams |-> teams, message |-> ""]

TradeCall(userTeamId, espn) ==
  [handler |-> "trade", userTeamId |-> userTeamId, espn |-> espn,
   trending |-> << >>, players |-> << >>, allStats |-> << >>]

TradeCalls ==
  { TradeCall(Some(1), EspnTeams(TradeTeams(mine, theirs, n))) :
      mine \in TradeRosters, theirs \in TradeRosters, n \in 1..MaxOthers }
    \cup { TradeCall(u, EspnTeams(TradeTeams(r, r, 1))) :
             u \in {None, Some(9)},
             r \in { Group("pair", "RB") \o Group("pair", "WR"), << >> } }
    \cup { TradeCall(u, EspnTeams(<< >>)) : u \in {None, Some(1)} }
    \cup { TradeCall(Some(1), f) : f \in EspnFailures }

\* the trending feed: n rows, the add counts rising, falling or level
Trending(n, shape) ==
  [i \in 1..n |->
     [player_id |-> i,
      count |-> CASE shape = "rising" -> 10 + i
                  [] shape = "falling" -> 100 - i
                  [] OTHER -> 50]]

TrendingFeeds ==
  { << >> } \cup { Trending(n, shape) : n \in {3, MaxTrending},
                                        shape \in {"rising", "falling", "level"} }

\* the player directory: every player draftable, or a mixture with players
\* missing, without a position, or at a position that is not drafted
DirectoryPlayer(i, pos) ==
  Some([first_name |-> IF i % 3 = 0 THEN None ELSE Some("F"),
        last_name |-> IF i % 3 = 0 THEN None ELSE Some("L"),
        full_name |-> IF i % 3 = 2 THEN None ELSE Some("P"),
        position |-> pos,
        team |-> IF i % 2 = 0 THEN Some("KC") ELSE None])

Directories ==
  { [i \in 1..MaxTrending |->
       DirectoryPlayer(i, Some(<< "QB", "RB", "WR", "TE", "K", "DEF" >>[(i % 6) + 1]))],
    [i \in { j \in 1..MaxTrending : j % 7 # 0 } |->
       DirectoryPlayer(i, << Some("QB"), Some("LB"), None, Some("K"), Some("DEF"),
                             Some("") >>[i % 7])] }

StatRow(id, pts) == [player_id |-> id, stats |-> Some([pts_ppr |-> pts])]

\* the season stats: none, or rows with and without points
StatTables ==
  { << >>,
    << StatRow(1, Some(455)), [player_id |-> 2, stats |-> None], StatRow(3, Some(0)),
       StatRow(4, Some(1200)), StatRow(1, Some(300)), StatRow(5, None),
       StatRow(26, Some(900)) >> }

Feeds ==
  { [trending |-> t, players |-> d, allStats |-> a] :
      t \in TrendingFeeds, d \in Directories, a \in StatTables }

\* the rosters of the user's team of a waiver call
WaiverRoster(q, r, k) ==
  (CASE q = "none" -> << >>
     [] q = "weak" -> << TeamPlayer("QB1", "QB", "QB", 30, 200) >>
     [] q = "fine" -> << TeamPlayer("QB1", "QB", "QB", 120, 200) >>
     [] q = "two" -> << TeamPlayer("QB1", "QB", "QB", 30, 200),
                        TeamPlayer("QB2", "QB", "Bench", 200, 150) >>)
  \o (IF r THEN << TeamPlayer("RB1", "RB", "RB", 90, 100) >> ELSE << >>)
  \o (IF k THEN << TeamPlayer("K1", "K", "K", 100, 80),
                   TeamPlayer("DEF1", "D/ST", "D/ST", 20, 60) >> ELSE << >>)

WaiverRosters ==
  { WaiverRoster(q, r, k) : q \in {"none", "weak", "fine", "two"}, r \in BOOLEAN,
                            k \in BOOLEAN }

WaiverTeams(r) == << Team(2, Some(<< >>)), Team(1, r) >>

WaiverCall(userTeamId, espn, feed) ==
  [handler |-> "waiver", userTeamId |-> userTeamId, espn |-> espn,
   trending |-> feed.trending, players |-> feed.players, allStats |-> feed.allStats]

WaiverCalls ==
  { WaiverCall(Some(1), EspnTeams(WaiverTeams(Some(r))), f) :
      r \in WaiverRosters, f \in Feeds }
    \cup { WaiverCall(u, EspnTeams(WaiverTeams(r)), f) :
             u \in {None, Some(1), Some(9)}, r \in {None, Some(WaiverRoster("weak", TRUE, FALSE))},
             f \in Feeds }
    \cup { WaiverCall(Some(1), e, f) : e \in EspnFailures, f \in Feeds }

\* the instants the calls arrive at: in week 1 and in week 3 of the season
CallInstants == { utcMidnight(CurrentYear, 9, 6), utcMidnight(CurrentYear, 9, 17) }

NoCall == [handler |-> "none", userTeamId |-> None, espn |-> EspnTeams(<< >>),
           trending |-> << >>, players |-> << >>, allStats |-> << >>]

NoAnswer == [sent |-> FALSE, status |-> 0, body |-> << >>, weak |-> {},
             considered |-> << >>, pairings |-> << >>]

(***************************************************************************)
(* State                                                                   *)
(***************************************************************************)
\* roster: the raw roster handed to processRoster
\* result: what processRoster returned (or that it threw)
\* step:   "raw" before the call, "done" after it
\* myMatchup, isHomeTeam: the matchup of the team page and the user's side
\* page:   what the team page shows for it
\* reqs:   the request handled in each slot
\* leagues, users: the stored league records and user accounts
\* started, nextId: requests received so far, next league record id
\* now, zone: the instant of the server clock and the server's zone
\* week:   what getCurrentNFLWeek returns at that instant
\* call:   what a suggestion handler works on (the league's team id of the
\*         user and the answers of the upstream services)
\* answer: its response, with the weak positions, candidates and pairings it
\*         went through
VARIABLES roster, result, step, myMatchup, isHomeTeam, page, reqs, leagues, users, started, nextId, now, zone, week, call, answer

rosterVars == << roster, result, step >>

pageVars == << myMatchup, isHomeTeam, page >>

serverVars == << reqs, leagues, users, started, nextId >>

clockVars == << now, zone, week >>

callVars == << call, answer >>

vars == << roster, result, step, myMatchup, isHomeTeam, page, reqs, leagues, users,
          started, nextId, now, zone, week, call, answer >>

NotRun == [threw |-> FALSE, value |-> << >>]

NotShown ==
  [shown |-> FALSE, myProjected |-> 0, oppProjected |-> 0, winProb |-> 0,
   barWidth |-> 0, label |-> 0, badge |-> "", matchupPct |-> 0, matchupLabel |-> 0]

NoMatchup == [homeRoster |-> None, awayRoster |-> None]

RosterIdle == roster = << >> /\ result = NotRun /\ step = "idle"

PageIdle == myMatchup = NoMatchup /\ isHomeTeam = FALSE /\ page = NotShown

ServerIdle ==
  /\ reqs = [s \in Slots |-> IdleReq]
  /\ leagues = {}
  /\ users = {}
  /\ started = 0
  /\ nextId = 1

ClockIdle == now = 0 /\ zone = 0 /\ week = 0

CallIdle == call = NoCall /\ answer = NoAnswer

Init ==
  /\ roster \in Rosters
  /\ result = NotRun
  /\ step = "raw"
  /\ PageIdle
  /\ ServerIdle
  /\ ClockIdle
  /\ CallIdle

\* processRoster(roster)
ProcessRoster ==
  /\ step = "raw"
  /\ result' = processRoster(roster)
  /\ step' = "done"
  /\ UNCHANGED << roster, pageVars, serverVars, clockVars, callVars >>

Next == ProcessRoster

Spec == Init /\ [][Next]_vars

\* the team page with a matchup loaded
PageInit ==
  /\ RosterIdle
  /\ ServerIdle
  /\ ClockIdle
  /\ CallIdle
  /\ myMatchup \in [homeRoster : ViewRosters, awayRoster : ViewRosters]
  /\ isHomeTeam \in BOOLEAN
  /\ page = NotShown

\* the matchup card is rendered
Render ==
  /\ ~page.shown
  /\ page' = render(myMatchup, isHomeTeam)
  /\ UNCHANGED << rosterVars, serverVars, clockVars, callVars, myMatchup, isHomeTeam >>

PageNext == Render

PageSpec == PageInit /\ [][PageNext]_vars

(***************************************************************************)
(* Server: one action per step of a handler.  A handler runs from one      *)
(* await to the next without interleaving; a storage call takes effect in  *)
(* one step.                                                               *)
(***************************************************************************)
\* who can send a request: nobody logged in, or a logged-in user
Callers == {None} \cup { Some(u) : u \in users }

free(s) == reqs[s].pc \in {"idle", "done"} /\ started < MaxStarted

connecting == { s \in Slots : reqs[s].route = "connect" /\ reqs[s].pc # "done" }

\* lines 221-246: POST /api/leagues/connect up to checkLeagueExists
startConnect(user, raw, season) ==
  LET r == newReq("connect", user)
      e == [r EXCEPT !.entered = TRUE]
  IN IF ~authenticated(r) THEN respond(r, 401, "Unauthorized")
     ELSE IF raw = "" \/ season = ""
          THEN respond(e, 400, "League ID and season year are required")
     ELSE IF cleanLeagueId(raw) = ""
          THEN respond(e, 400, "League ID must contain numbers")
     ELSE IF ~validSeason(parseSeason(season))
          THEN respond(e, 400, "Please enter a valid season year")
     ELSE [e EXCEPT !.leagueId = cleanLeagueId(raw),
                    !.seasonId = parseSeason(season)[1],
                    !.pc = "checkLeagueExists"]

ReceiveConnect(s) ==
  /\ free(s)
  /\ nextId + Cardinality(connecting) <= MaxLeagues
  /\ \E user \in Callers, raw \in RawLeagueIds, season \in RawSeasonIds :
       reqs' = [reqs EXCEPT ![s] = startConnect(user, raw, season)]
  /\ started' = started + 1
  /\ UNCHANGED << rosterVars, pageVars, clockVars, callVars, leagues, users, nextId >>

\* a league-scoped handler up to getLeagueById (lines 305-312, 398-405,
\* 459-466, 587-593, 770-776)
startLeagueScoped(route, user, id) ==
  LET r == [newReq(route, user) EXCEPT !.id = id]
  IN IF ~authenticated(r) THEN respond(r, 401, "Unauthorized")
     ELSE [r EXCEPT !.entered = TRUE, !.pc = "getLeagueById"]

\* lines 328-350: set-team validates the body before it loads the league
startSetTeam(user, id, teamId) ==
  LET r == [newReq("setTeam", user) EXCEPT !.id = id, !.teamId = teamId]
  IN IF ~authenticated(r) THEN respond(r, 401, "Unauthorized")
     ELSE IF ~validTeamId(teamId)
          THEN respond([r EXCEPT !.entered = TRUE], 400, "Valid team ID is required")
     ELSE [r EXCEPT !.entered = TRUE, !.pc = "getLeagueById"]

ReceiveLeagueScoped(s) ==
  /\ free(s)
  /\ \E route \in LeagueScoped \ {"setTeam"}, user \in Callers, id \in 0..MaxLeagues :
       reqs' = [reqs EXCEPT ![s] = startLeagueScoped(route, user, id)]
  /\ started' = started + 1
  /\ UNCHANGED << rosterVars, pageVars, clockVars, callVars, leagues, users, nextId >>

ReceiveSetTeam(s) ==
  /\ free(s)
  /\ \E user \in Callers, id \in 0..MaxLeagues, teamId \in TeamIdInputs :
       reqs' = [reqs EXCEPT ![s] = startSetTeam(user, id, teamId)]
  /\ started' = started + 1
  /\ UNCHANGED << rosterVars, pageVars, clockVars, callVars, leagues, users, nextId >>

\* lines 519-525: GET /api/rankings is registered without isAuthenticated
\* and starts with the season-stats fetch
startRankings(user) ==
  [newReq("rankings", user) EXCEPT !.entered = TRUE, !.pc = "sleeperStats",
                                   !.fetched = TRUE]

ReceiveRankings(s) ==
  /\ free(s)
  /\ \E user \in Callers : reqs' = [reqs EXCEPT ![s] = startRankings(user)]
  /\ started' = started + 1
  /\ UNCHANGED << rosterVars, pageVars, clockVars, callVars, leagues, users, nextId >>

\* lines 1007-1010: DELETE /api/account up to deleteUser
startDeleteAccount(user) ==
  LET r == newReq("deleteAccount", user)
  IN IF ~authenticated(r) THEN respond(r, 401, "Unauthorized")
     ELSE [r EXCEPT !.entered = TRUE, !.pc = "deleteUser"]

ReceiveDeleteAccount(s) ==
  /\ free(s)
  /\ \E user \in Callers : reqs' = [reqs EXCEPT ![s] = startDeleteAccount(user)]
  /\ started' = started + 1
  /\ UNCHANGED << rosterVars, pageVars, clockVars, callVars, leagues, users, nextId >>

\* storage.checkLeagueExists(userId, leagueId, seasonId)
checkLeagueExists(userId, leagueId, seasonId) ==
  \E l \in leagues : l.userId = userId /\ l.leagueId = leagueId /\ l.seasonId = seasonId

\* lines 243-266: the result of checkLeagueExists, then the ESPN call is
\* started and raced against a 10 s timer
CheckLeagueExists(s) ==
  LET r == reqs[s]
  IN /\ r.pc = "checkLeagueExists"
     /\ reqs' = [reqs EXCEPT ![s] =
          IF checkLeagueExists(r.user[1], r.leagueId, r.seasonId)
          THEN respond(r, 400, "This league is already connected")
          ELSE [r EXCEPT !.pc = "espnLeagueInfo", !.timer = TRUE, !.fetched = TRUE]]
     /\ UNCHANGED << rosterVars, pageVars, clockVars, callVars, leagues, users, started, nextId >>

\* lines 260-266 and 286: getLeagueInfo resolved; the timer is cleared
EspnLeagueInfoOk(s) ==
  LET r == reqs[s]
  IN /\ r.pc = "espnLeagueInfo"
     /\ reqs' = [reqs EXCEPT ![s] = [r EXCEPT !.pc = "createLeague", !.timer = FALSE]]
     /\ UNCHANGED << rosterVars, pageVars, clockVars, callVars, leagues, users, started, nextId >>

\* storage.createLeague: a row of espn_leagues with a fresh id; user_id is a
\* foreign key to users
createLeague(userId, leagueId, seasonId) ==
  [id |-> nextId, userId |-> userId, leagueId |-> leagueId, seasonId |-> seasonId,
   isSelected |-> 0, userTeamId |-> None]

\* lines 286-302
CreateLeague(s) ==
  LET r == reqs[s]
  IN /\ r.pc = "createLeague"
     /\ IF r.user[1] \in users
        THEN /\ leagues' = leagues \cup {createLeague(r.user[1], r.leagueId, r.seasonId)}
             /\ nextId' = nextId + 1
             /\ reqs' = [reqs EXCEPT ![s] = respond([r EXCEPT !.mutated = TRUE], 200, "league")]
        ELSE /\ reqs' = [reqs EXCEPT ![s] = respond(r, 500, "Failed to connect league")]
             /\ UNCHANGED << leagues, nextId >>
     /\ UNCHANGED << rosterVars, pageVars, clockVars, callVars, users, started >>

\* storage.getLeagueById(id)
getLeagueById(id) ==
  IF \E l \in leagues : l.id = id
  THEN Some(CHOOSE l \in leagues : l.id = id)
  ELSE None

\* the handler without the comparison of league.userId with the user's id
afterGetLeague_anyOwner(r, league) ==
  IF league = None THEN respond(r, 404, "League not found")
  ELSE CASE r.route = "select" -> [r EXCEPT !.league = league, !.pc = "selectLeague"]
         [] r.route \in {"setTeam", "teams", "trade"} ->
              [r EXCEPT !.league = league, !.pc = "espnTeams", !.timer = TRUE,
                        !.fetched = TRUE]
         [] r.route = "matchups" ->
              [r EXCEPT !.league = league, !.pc = "espnBoxscore", !.timer = TRUE,
                        !.fetched = TRUE]
         [] r.route = "waiver" ->
              [r EXCEPT !.league = league, !.pc = "sleeperTrending", !.fetched = TRUE]

\* the handler after getLeagueById returned: 404, 403, or its next call
\* (lines 312-320, 350-377, 405-434, 466-494, 593-602, 776-805)
afterGetLeague(r, league) ==
  IF league = None THEN respond(r, 404, "League not found")
  ELSE IF league[1].userId # r.user[1] THEN respond(r, 403, "Forbidden")
  ELSE CASE r.route = "select" -> [r EXCEPT !.league = league, !.pc = "selectLeague"]
         [] r.route \in {"setTeam", "teams", "trade"} ->
              [r EXCEPT !.league = league, !.pc = "espnTeams", !.timer = TRUE,
                        !.fetched = TRUE]
         [] r.route = "matchups" ->
              [r EXCEPT !.league = league, !.pc = "espnBoxscore", !.timer = TRUE,
                        !.fetched = TRUE]
         [] r.route = "waiver" ->
              [r EXCEPT !.league = league, !.pc = "sleeperTrending", !.fetched = TRUE]

GetLeagueById(s) ==
  LET r == reqs[s]
  IN /\ r.pc = "getLeagueById"
     /\ reqs' = [reqs EXCEPT ![s] = afterGetLeague(r, getLeagueById(r.id))]
     /\ UNCHANGED << rosterVars, pageVars, clockVars, callVars, leagues, users, started, nextId >>

\* storage.selectLeague(userId, id): the user's selected league becomes id
selectLeague(userId, id) ==
  { IF l.userId = userId
    THEN [l EXCEPT !.isSelected = IF l.id = id THEN 1 ELSE 0]
    ELSE l : l \in leagues }

\* lines 320-321
SelectLeague(s) ==
  LET r == reqs[s]
  IN /\ r.pc = "selectLeague"
     /\ leagues' = selectLeague(r.user[1], r.id)
     /\ reqs' = [reqs EXCEPT ![s] =
          respond([r EXCEPT !.mutated = TRUE], 200, "League selected successfully")]
     /\ UNCHANGED << rosterVars, pageVars, clockVars, callVars, users, started, nextId >>

\* the handler when its ESPN call rejected or its timer fired first, without
\* the clearTimeout of the finally block
espnFailure_leak(r, err) ==
  LET c == [r EXCEPT !.caught = err.message]
  IN CASE r.route = "connect" -> respond(c, 400, connectErrorMessage(err))
       [] r.route = "setTeam" -> respond(c, 500, "Failed to validate team with ESPN")
       [] r.route = "matchups" -> respond(c, 500, "Failed to fetch matchups from ESPN")
       [] r.route = "waiver" -> respond(c, 200, "trending only")
       [] OTHER -> respond(c, 500, "Failed to fetch teams from ESPN")

\* the handler when its ESPN call rejected or its timer fired first; the
\* finally block clears the timer (lines 267-284, 378-381, 435-438, 495-498,
\* 658-676, 806-809)
espnFailure(r, err) ==
  LET c == [r EXCEPT !.timer = FALSE, !.caught = err.message]
  IN CASE r.route = "connect" -> respond(c, 400, connectErrorMessage(err))
       [] r.route = "setTeam" -> respond(c, 500, "Failed to validate team with ESPN")
       [] r.route = "matchups" -> respond(c, 500, "Failed to fetch matchups from ESPN")
       [] r.route = "waiver" -> respond(c, 200, "trending only")
       [] OTHER -> respond(c, 500, "Failed to fetch teams from ESPN")

EspnFails(s) ==
  /\ reqs[s].pc \in EspnWaits
  /\ \E err \in EspnErrors : reqs' = [reqs EXCEPT ![s] = espnFailure(reqs[s], err)]
  /\ UNCHANGED << rosterVars, pageVars, clockVars, callVars, leagues, users, started, nextId >>

\* the setTimeout callback of a pending timer rejects the race
TimerFires(s) ==
  /\ reqs[s].pc \in EspnWaits
  /\ reqs[s].timer
  /\ reqs' = [reqs EXCEPT ![s] = espnFailure(reqs[s], TimerError)]
  /\ UNCHANGED << rosterVars, pageVars, clockVars, callVars, leagues, users, started, nextId >>

\* `teams.find(t => t.id === league.userTeamId)` finds a team
hasMyTeam(r, teams) ==
  r.league[1].userTeamId # None /\ r.league[1].userTeamId[1] \in teams

\* the handler after getTeamsAtWeek resolved (lines 383-389, 500-511,
\* 678-762, 811-999)
\* set-team going on to updateUserTeam without the teams.some test
afterTeams_unchecked(r, teams) ==
  LET c == [r EXCEPT !.timer = FALSE]
  IN CASE r.route = "setTeam" -> [c EXCEPT !.pc = "updateUserTeam", !.teams = teams]
       [] r.route = "teams" -> respond(c, 200, "teams")
       [] r.route = "waiver" ->
            IF hasMyTeam(r, teams) THEN respond(c, 200, "ranked candidates")
            ELSE respond(c, 200, "trending only")
       [] r.route = "trade" ->
            IF hasMyTeam(r, teams) THEN respond(c, 200, "suggestions")
            ELSE respond(c, 200, "empty list")

afterTeams(r, teams) ==
  LET c == [r EXCEPT !.timer = FALSE]
  IN CASE r.route = "setTeam" ->
            IF r.teamId \in teams
            THEN [c EXCEPT !.pc = "updateUserTeam", !.teams = teams]
            ELSE respond([c EXCEPT !.teams = teams], 400,
                         "Team does not exist in this league")
       [] r.route = "teams" -> respond(c, 200, "teams")
       [] r.route = "waiver" ->
            IF hasMyTeam(r, teams) THEN respond(c, 200, "ranked candidates")
            ELSE respond(c, 200, "trending only")
       [] r.route = "trade" ->
            IF hasMyTeam(r, teams) THEN respond(c, 200, "suggestions")
            ELSE respond(c, 200, "empty list")

EspnTeamsOk(s) ==
  /\ reqs[s].pc = "espnTeams"
  /\ \E teams \in EspnTeamLists : reqs' = [reqs EXCEPT ![s] = afterTeams(reqs[s], teams)]
  /\ UNCHANGED << rosterVars, pageVars, clockVars, callVars, leagues, users, started, nextId >>

\* lines 440-452
EspnBoxscoreOk(s) ==
  /\ reqs[s].pc = "espnBoxscore"
  /\ reqs' = [reqs EXCEPT ![s] = respond([reqs[s] EXCEPT !.timer = FALSE], 200, "matchups")]
  /\ UNCHANGED << rosterVars, pageVars, clockVars, callVars, leagues, users, started, nextId >>

\* storage.updateUserTeam(userId, id, teamId)
updateUserTeam(userId, id, teamId) ==
  { IF l.userId = userId /\ l.id = id
    THEN [l EXCEPT !.userTeamId = Some(teamId)]
    ELSE l : l \in leagues }

\* lines 389-390
UpdateUserTeam(s) ==
  LET r == reqs[s]
  IN /\ r.pc = "updateUserTeam"
     /\ leagues' = updateUserTeam(r.user[1], r.id, r.teamId)
     /\ reqs' = [reqs EXCEPT ![s] =
          respond([r EXCEPT !.mutated = TRUE], 200, "Team selected successfully")]
     /\ UNCHANGED << rosterVars, pageVars, clockVars, callVars, users, started, nextId >>

\* the handler after a Sleeper fetch answered with an ok response: rankings
\* fetches stats then players (lines 525-579); waiver-wire fetches trending,
\* players, stats and then calls ESPN with a 15 s timer (lines 602-657)
afterSleeper(r) ==
  CASE r.route = "rankings" /\ r.pc = "sleeperStats" -> [r EXCEPT !.pc = "sleeperPlayers"]
    [] r.route = "rankings" /\ r.pc = "sleeperPlayers" -> respond(r, 200, "rankings")
    [] r.route = "waiver" /\ r.pc = "sleeperTrending" -> [r EXCEPT !.pc = "sleeperPlayers"]
    [] r.route = "waiver" /\ r.pc = "sleeperPlayers" -> [r EXCEPT !.pc = "sleeperStats"]
    [] r.route = "waiver" /\ r.pc = "sleeperStats" ->
         [r EXCEPT !.pc = "espnTeams", !.timer = TRUE]

SleeperOk(s) ==
  /\ reqs[s].pc \in SleeperWaits
  /\ reqs' = [reqs EXCEPT ![s] = afterSleeper(reqs[s])]
  /\ UNCHANGED << rosterVars, pageVars, clockVars, callVars, leagues, users, started, nextId >>

\* a Sleeper fetch rejected or answered with a non-ok status: the outer catch
\* (lines 580-583, 763-766)
SleeperFails(s) ==
  /\ reqs[s].pc \in SleeperWaits
  /\ reqs' = [reqs EXCEPT ![s] =
       respond(reqs[s], 500,
               IF reqs[s].route = "rankings" THEN "Failed to fetch rankings"
               ELSE "Failed to fetch waiver wire suggestions")]
  /\ UNCHANGED << rosterVars, pageVars, clockVars, callVars, leagues, users, started, nextId >>

\* storage.deleteUser(id); espn_leagues.user_id cascades (lines 1010-1019)
DeleteUser(s) ==
  LET r == reqs[s]
  IN /\ r.pc = "deleteUser"
     /\ users' = users \ {r.user[1]}
     /\ leagues' = { l \in leagues : l.userId # r.user[1] }
     /\ reqs' = [reqs EXCEPT ![s] =
          respond([r EXCEPT !.mutated = TRUE], 200, "Account deleted successfully")]
     /\ UNCHANGED << rosterVars, pageVars, clockVars, callVars, started, nextId >>

ServerInit ==
  /\ RosterIdle
  /\ PageIdle
  /\ ClockIdle
  /\ CallIdle
  /\ reqs = [s \in Slots |-> IdleReq]
  /\ leagues = {}
  /\ users = UserIds
  /\ started = 0
  /\ nextId = 1

ServerNext ==
  \E s \in Slots :
    \/ ReceiveConnect(s)
    \/ ReceiveLeagueScoped(s)
    \/ ReceiveSetTeam(s)
    \/ ReceiveRankings(s)
    \/ ReceiveDeleteAccount(s)
    \/ CheckLeagueExists(s)
    \/ EspnLeagueInfoOk(s)
    \/ CreateLeague(s)
    \/ GetLeagueById(s)
    \/ SelectLeague(s)
    \/ EspnFails(s)
    \/ TimerFires(s)
    \/ EspnTeamsOk(s)
    \/ EspnBoxscoreOk(s)
    \/ UpdateUserTeam(s)
    \/ SleeperOk(s)
    \/ SleeperFails(s)
    \/ DeleteUser(s)

ServerSpec == ServerInit /\ [][ServerNext]_vars

(***************************************************************************)
(* The server clock: getCurrentNFLWeek is read as the hours go by          *)
(***************************************************************************)
ClockInit ==
  /\ RosterIdle
  /\ PageIdle
  /\ ServerIdle
  /\ zone \in Zones
  /\ now = FirstInstant
  /\ week = getCurrentNFLWeek(now, zone)
  /\ CallIdle

\* an hour passes and the week is computed again
Tick ==
  /\ now < LastInstant
  /\ now' = now + 1
  /\ week' = getCurrentNFLWeek(now', zone)
  /\ UNCHANGED << rosterVars, pageVars, serverVars, callVars, zone >>

ClockNext == Tick

ClockSpec == ClockInit /\ [][ClockNext]_vars

(***************************************************************************)
(* Suggestions: a call arrives, its handler answers                        *)
(***************************************************************************)
SuggestInit ==
  /\ RosterIdle
  /\ PageIdle
  /\ ServerIdle
  /\ zone = 0
  /\ now \in CallInstants
  /\ week = getCurrentNFLWeek(now, zone)
  /\ call \in WaiverCalls \cup TradeCalls
  /\ answer = NoAnswer

\* the response record of a handler's result
sent(r) ==
  [sent |-> TRUE, status |-> r.status, body |-> r.body,
   weak |-> IF "weak" \in DOMAIN r THEN r.weak ELSE {},
   considered |-> IF "considered" \in DOMAIN r THEN r.considered ELSE << >>,
   pairings |-> IF "pairings" \in DOMAIN r THEN r.pairings ELSE << >>]

\* GET /api/waiver-wire/:id
WaiverWire ==
  /\ call.handler = "waiver"
  /\ ~answer.sent
  /\ \E currentWeek \in { getCurrentNFLWeek(now, zone) } :
       \E r \in { waiverWire(call, currentWeek) } : answer' = sent(r)
  /\ UNCHANGED << rosterVars, pageVars, serverVars, clockVars, call >>

\* GET /api/trade-suggestions/:id
TradeSuggestions ==
  /\ call.handler = "trade"
  /\ ~answer.sent
  /\ \E currentWeek \in { getCurrentNFLWeek(now, zone) } :
       \E r \in { tradeSuggestions(call, currentWeek) } : answer' = sent(r)
  /\ UNCHANGED << rosterVars, pageVars, serverVars, clockVars, call >>

SuggestNext == WaiverWire \/ TradeSuggestions

SuggestSpec == SuggestInit /\ [][SuggestNext]_vars

(***************************************************************************)
(* Roster normalization: properties                                        *)
(***************************************************************************)
\* the normalized entries in input order
normalized == [i \in 1..Len(roster) |-> normalize(roster[i])]

\* C1: processRoster never raises; it returns exactly one record per entry,
\* and every record's playerName and position are non-null, defined values,
\* whatever shape the entry has and whichever of its fields are absent.
C1_NeverRaises ==
  step = "done" =>
    /\ ~result.threw
    /\ Len(result.value) = Len(roster)
    /\ \A i \in 1..Len(result.value) :
         /\ result.value[i].playerName # None
         /\ result.value[i].position # None

\* an entry whose playerPoolEntry holds no player, and no other field, came
\* out as an empty slot
C1_Witness ==
  /\ step = "done"
  /\ Len(roster) = 1
  /\ roster[1].playerPoolEntry = Some([player |-> None])
  /\ roster[1].lineupSlotId = None
  /\ ~result.threw
  /\ Len(result.value) = 1
  /\ result.value[1].playerName = Some("Empty Slot")
  /\ result.value[1].position = Some("N/A")

\* C2: isStarter is true exactly when the resolved slot is an active lineup
\* slot, that is any slot other than bench (20) and injured reserve (21); an
\* entry in the FLEX slot (23) is a starter.
C2_StarterIffActiveSlot ==
  step = "done" =>
    \A i \in 1..Len(result.value) :
      result.value[i].isStarter <=> result.value[i].lineupSlotId \notin {BENCH, IR}

Bijections(n) ==
  { f \in [1..n -> 1..n] : \A i, j \in 1..n : f[i] = f[j] => i = j }

\* C4: the returned list is a permutation of the normalized entries in which
\* every starter precedes every non-starter, lineupSlotId is non-decreasing
\* within each of the two groups, and records that tie on both keys keep
\* their input order.
C4_StableStartersFirst ==
  step = "done" =>
    \E f \in Bijections(Len(roster)) :
      /\ Len(result.value) = Len(roster)
      /\ \A i \in 1..Len(roster) : result.value[i] = normalized[f[i]]
      /\ \A i, j \in 1..Len(roster) :
           i < j =>
             LET a == result.value[i]
                 b == result.value[j]
             IN /\ a.isStarter \/ ~b.isStarter
                /\ a.isStarter = b.isStarter => a.lineupSlotId <= b.lineupSlotId
                /\ (a.isStarter = b.isStarter /\ a.lineupSlotId = b.lineupSlotId)
                     => f[i] < f[j]

\* a bench entry given first was moved behind two starters of the same slot,
\* which kept their order, and a higher slot came after a lower one
C4_Witness ==
  /\ step = "done"
  /\ Len(roster) >= 3
  /\ ~normalized[1].isStarter
  /\ normalized[2].isStarter /\ normalized[3].isStarter
  /\ normalized[2].lineupSlotId = normalized[3].lineupSlotId
  /\ normalized[2] # normalized[3]
  /\ result.value[1] = normalized[2]
  /\ result.value[2] = normalized[3]
  /\ result.value[3] = normalized[1]

(***************************************************************************)
(* Team page: properties                                                   *)
(***************************************************************************)
\* the two sides' starter projected-point sums of the loaded matchup
mySum == projected(myRoster(myMatchup, isHomeTeam))

oppSum == projected(oppRoster(myMatchup, isHomeTeam))

\* C9: every win probability shown for a matchup (the bar, the number next
\* to it, the percentage of the matchup view) is within [5, 95] percent.
C9_DisplayedWithin5And95 ==
  page.shown =>
    /\ page.barWidth >= 500 /\ page.barWidth <= 9500
    /\ page.label >= 5 /\ page.label <= 95
    /\ page.matchupLabel >= 5 /\ page.matchupLabel <= 95

\* C10: with equal starter sums (both zero included) the win probability is
\* exactly 50% and the matchup is a toss-up; it is above 50% exactly when the
\* user's sum is larger and below 50% exactly when it is smaller.
C10_FiftyIffEqual ==
  page.shown =>
    /\ mySum = oppSum =>
         /\ page.winProb = 5000 /\ page.label = 50 /\ page.badge = "Toss-up"
         /\ page.matchupPct = 5000 /\ page.matchupLabel = 50
    /\ page.winProb > 5000 <=> mySum > oppSum
    /\ page.winProb < 5000 <=> mySum < oppSum
    /\ page.badge = "Favored to Win" <=> mySum > oppSum
    /\ page.badge = "Underdog" <=> mySum < oppSum
    /\ page.matchupPct > 5000 <=> mySum > oppSum
    /\ page.matchupPct < 5000 <=> mySum < oppSum

\* two different line-ups with the same positive total are shown as a toss-up
C10_Witness ==
  /\ page.shown
  /\ mySum = oppSum /\ mySum > 0
  /\ myMatchup.homeRoster # myMatchup.awayRoster
  /\ page.winProb = 5000
  /\ page.badge = "Toss-up"

(***************************************************************************)
(* Server: properties                                                      *)
(***************************************************************************)
\* C5: every upstream fetch of a handler races against a timeout: while a
\* request waits for an ESPN or Sleeper call, a timer of that request is
\* pending, so the handler answers even if the call never settles.
C5_EveryFetchHasTimer ==
  \A s \in Slots :
    reqs[s].pc \in (EspnWaits \cup SleeperWaits) => reqs[s].timer

\* C6: after any interleaving of connect requests a user has at most one
\* stored league record per (cleaned league id, season year).
C6_OneRecordPerLeague ==
  \A l1, l2 \in leagues :
    (l1.userId = l2.userId /\ l1.leagueId = l2.leagueId /\ l1.seasonId = l2.seasonId)
      => l1 = l2

\* a request of a league-scoped handler that has started an upstream fetch,
\* changed storage or answered 200 holds a league that it loaded by the path
\* id and that belongs to its user
ownsWhatItTouches(r) ==
  (r.route \in LeagueScoped /\ (r.fetched \/ r.mutated \/ r.status = 200)) =>
    /\ r.league # None
    /\ r.league[1].id = r.id
    /\ r.user # None
    /\ r.league[1].userId = r.user[1]

\* the step in which a league-scoped handler gets the league answers 404
\* when no league has the id and 403 when the league is another user's, and
\* then does nothing else; and no step of such a handler changes or removes
\* a league record of another user
checkedBeforeUse(s) ==
  LET r == reqs[s]
      q == reqs'[s]
  IN (r.route \in LeagueScoped /\ r.pc # "done" /\ q # r) =>
       /\ r.pc = "getLeagueById" /\ getLeagueById(r.id) = None =>
            q.pc = "done" /\ q.status = 404 /\ ~q.fetched /\ ~q.mutated
       /\ (r.pc = "getLeagueById" /\ getLeagueById(r.id) # None
             /\ getLeagueById(r.id)[1].userId # r.user[1]) =>
            q.pc = "done" /\ q.status = 403 /\ ~q.fetched /\ ~q.mutated
       /\ \A l \in leagues : l.userId # r.user[1] => l \in leagues'

\* C7: every league-scoped handler checks that the league exists (else 404)
\* and belongs to the authenticated user (else 403) before any upstream
\* fetch, storage mutation or league data; no user reads or changes a league
\* of another user.
C7_OwnershipBeforeUse ==
  /\ [](\A s \in Slots : ownsWhatItTouches(reqs[s]))
  /\ [][\A s \in Slots : checkedBeforeUse(s)]_vars

\* a user's request for another user's league was answered 403 while the
\* league stayed as it was
C7_Witness ==
  \E s \in Slots, l \in leagues :
    /\ reqs[s].route \in LeagueScoped
    /\ reqs[s].pc = "done" /\ reqs[s].status = 403
    /\ reqs[s].id = l.id
    /\ reqs[s].user # None /\ reqs[s].user # Some(l.userId)
    /\ ~reqs[s].fetched /\ ~reqs[s].mutated

\* C8: an unauthenticated request to /api/rankings, /api/waiver-wire/:id,
\* /api/trade-suggestions/:id or DELETE /api/account never reaches the
\* handler body and never triggers an upstream fetch.
C8_AuthRequired ==
  \A s \in Slots :
    (reqs[s].route \in {"rankings", "waiver", "trade", "deleteAccount"}
       /\ reqs[s].user = None)
      => ~reqs[s].entered /\ ~reqs[s].fetched

(***************************************************************************)
(* Schedule estimator: properties                                          *)
(***************************************************************************)
\* the local calendar date of the clock, as year * 10000 + month * 100 + day
localDate(t) == getFullYear(t, zone) * 10000 + (getMonth(t, zone) + 1) * 100
                + getDate(t, zone)

\* instant t lies in the season of year y: 1 September y to 31 August y + 1
inSeason(y, t) == localDate(t) >= y * 10000 + 901 /\ localDate(t) <= (y + 1) * 10000 + 831

reached ==
  LET y == IF getMonth(now, zone) + 1 >= 9 THEN getFullYear(now, zone)
           ELSE getFullYear(now, zone) - 1
      starts == weekStarts(y)
  IN { i \in 1..18 : starts[i] <= now }

answered(handler) == answer.sent /\ call.handler = handler

\* the ESPN call returned the teams and the user's team is among them
normalPath ==
  /\ call.espn.kind = "ok"
  /\ \E i \in 1..Len(call.espn.teams) : Some(call.espn.teams[i].id) = call.userTeamId

\* the emitted suggestions of a trade response
suggestions == IF answer.status = 200 THEN answer.body ELSE << >>

\* C11: no trade suggestion is emitted for a pairing whose fairness
\* 1 - |a - b| / ((a + b) / 2) is <= 0.65 or in which either player's value
\* is <= 4 points.
C11_FairAndValuable ==
  answered("trade") =>
    \A i \in 1..Len(suggestions) :
      LET a == suggestions[i].myPlayer.value
          b == suggestions[i].theirPlayer.value
      IN /\ 35 * (a + b) > 200 * abs(a - b)
         /\ a > 4 * 100 * week
         /\ b > 4 * 100 * week

\* a pairing that would help the user was evaluated and left out for its
\* fairness, while another one was suggested
C11_Witness ==
  /\ answered("trade")
  /\ Len(suggestions) > 0
  /\ \E i \in 1..Len(answer.pairings) :
       LET q == answer.pairings[i]
       IN /\ 100 * q.fairness.num <= 65 * q.fairness.den
          /\ q.myImprovement.num > 100 * week * q.myImprovement.den
          /\ \A j \in 1..Len(suggestions) : suggestions[j] # q

\* the improvement of a side exceeds 1 point
improves(q) == q.num > 100 * week * q.den

C13_FairnessInUnitInterval ==
  answered("trade") =>
    \A i \in 1..Len(answer.pairings) :
      LET q == answer.pairings[i]
      IN /\ q.fairness.num >= 0
         /\ q.fairness.num <= q.fairness.den
         /\ q.myPlayer.value = q.theirPlayer.value => q.fairness.num = q.fairness.den

\* the normalized roster of the user's team of the call
mine ==
  LET t == CHOOSE i \in 1..Len(call.espn.teams) :
             Some(call.espn.teams[i].id) = call.userTeamId
  IN processRoster(Coalesce(call.espn.teams[t].roster, Some(<< >>))[1]).value

\* the roster's players at a candidate position (a defense is D/ST there)
at(pos) ==
  { i \in 1..Len(mine) :
      mine[i].position = Some(pos) \/ (pos = "DEF" /\ mine[i].position = Some("D/ST")) }

\* the sum of the total points (tenths) of the roster's players in a set
RECURSIVE totalOf(_)
totalOf(S) ==
  IF S = {} THEN 0
  ELSE LET i == CHOOSE j \in S : TRUE IN mine[i].totalPoints + totalOf(S \ {i})

\* C14: a position is weak when the roster has no player there or the
\* position's average is below 8 points; so for each of QB, RB, WR, TE, K and
\* DEF a trending candidate whose position is empty on the user's roster gets
\* the +100 boost and the 'Upgrade weak <POS> position' recommendation.
C14_EmptyPositionBoosted ==
  (answered("waiver") /\ normalPath) =>
    \A i \in 1..Len(answer.considered) :
      LET cand == answer.considered[i]
      IN (at(cand.position) = {} \/ totalOf(at(cand.position)) < 80 * Cardinality(at(cand.position)))
           => /\ cand.recommendation = "Upgrade weak " \o cand.position \o " position"
              /\ cand.score >= week * cand.adds + week * 100

\* the user's roster is the one with a single QB below 8 points, with or
\* without the other players
onlyQBBelowEight(r, k) == call.espn.teams = WaiverTeams(Some(WaiverRoster("weak", r, k)))

\* C15: of two waiver runs with the same trending counts, directory and
\* stats, whose rosters differ only in the user's only QB averaging below 8
\* points in the first and at least 8 in the second, the first gives every
\* trending QB candidate a score exactly 100 higher and every other candidate
\* the same score (scores are kept multiplied by the current week).
C15_WeakQBBoostsQBsBy100 ==
  (answered("waiver") /\ normalPath) =>
    \A r, k \in BOOLEAN :
      onlyQBBelowEight(r, k) =>
        LET other == waiverWire([call EXCEPT !.espn.teams =
                                   WaiverTeams(Some(WaiverRoster("fine", r, k)))], week)
        IN /\ Len(other.considered) = Len(answer.considered)
           /\ \A i \in 1..Len(answer.considered) :
                /\ answer.considered[i].playerId = other.considered[i].playerId
                /\ answer.considered[i].position = "QB" =>
                     answer.considered[i].score = other.considered[i].score + 100 * week
                /\ answer.considered[i].position # "QB" =>
                     answer.considered[i].score = other.considered[i].score

\* a run on the roster with the weak QB ranked QB candidates and others,
\* some with season stats
C15_Witness ==
  /\ answered("waiver") /\ normalPath
  /\ onlyQBBelowEight(TRUE, TRUE)
  /\ "QB" \in answer.weak
  /\ week = 3
  /\ \E i, j \in 1..Len(answer.considered) :
       /\ answer.considered[i].position = "QB"
       /\ answer.considered[i].totalPoints # None
       /\ answer.considered[j].position = "K"

\* a body is the trending-only list: the first 25 rows of the feed, in feed
\* order, without a score and with the plain recommendation
trendingOnly(body) ==
  /\ Len(body) = (IF Len(call.trending) < 25 THEN Len(call.trending) ELSE 25)
  /\ \A i \in 1..Len(body) :
       /\ body[i].playerId = call.trending[i].player_id
       /\ body[i].adds = call.trending[i].count
       /\ body[i].recommendation = "Trending pickup"
       /\ "score" \notin DOMAIN body[i]

\* C16: when the ESPN roster fetch of the waiver-wire handler fails or times
\* out the request still succeeds: the response is the trending-only list of
\* at most 25 entries from the feed, without boost or weak-position
\* recommendation, and no 5xx status is sent.
C16_EspnFailureFallsBack ==
  (answered("waiver") /\ call.espn.kind # "ok") =>
    /\ answer.status = 200
    /\ Len(answer.body) <= 25
    /\ trendingOnly(answer.body)

\* the timer fired on a call with a feed longer than 25 rows
C16_Witness ==
  /\ answered("waiver")
  /\ call.espn.kind = "timeout"
  /\ Len(call.trending) > 25
  /\ answer.status = 200
  /\ Len(answer.body) = 25

\* C17: with no team selected, or the selected team absent from the fetched
\* team list, trade-suggestions answers successfully with an empty list and
\* waiver-wire answers successfully with the trending-only list.
C17_NoTeamDegrades ==
  (answer.sent /\ call.espn.kind = "ok" /\ ~normalPath) =>
    /\ answer.status = 200
    /\ call.handler = "trade" => answer.body = << >>
    /\ call.handler = "waiver" => trendingOnly(answer.body)

\* the selected team is not in a league whose rosters would yield trades
C17_Witness ==
  /\ answered("trade")
  /\ call.userTeamId = Some(9)
  /\ Len(call.espn.teams) = 2
  /\ call.espn.teams[1].roster # Some(<< >>)
  /\ answer.status = 200
  /\ answer.body = << >>

\* the items a handler accepted before ranking them
accepted ==
  IF call.handler = "trade"
  THEN { answer.pairings[i] : i \in { j \in 1..Len(answer.pairings) :
                                        answer.pairings[j].emitted } }
  ELSE { answer.considered[i] : i \in 1..Len(answer.considered) }

cap == IF call.handler = "trade" THEN 15 ELSE 25

\* C18: on the normal path trade-suggestions returns at most 15 suggestions
\* and waiver-wire at most 25 candidates, each list in non-increasing score
\* order, and no accepted item left out scores strictly higher than an item
\* that is returned.
C18_RankedAndCapped ==
  (answer.sent /\ normalPath) =>
    /\ answer.status = 200
    /\ Len(answer.body) <= cap
    /\ Len(answer.body) = (IF Cardinality(accepted) < cap THEN Cardinality(accepted) ELSE cap)
    /\ \A i \in 1..Len(answer.body) : answer.body[i] \in accepted
    /\ \A i, j \in 1..Len(answer.body) :
         i < j => answer.body[i].score >= answer.body[j].score /\ answer.body[i] # answer.body[j]
    /\ \A x \in accepted :
         (\A i \in 1..Len(answer.body) : answer.body[i] # x) =>
           \A i \in 1..Len(answer.body) : answer.body[i].score >= x.score

\* more than 15 pairings were accepted, of different scores, and 15 returned
C18_Witness ==
  /\ answered("trade") /\ normalPath
  /\ Cardinality(accepted) > 15
  /\ Len(answer.body) = 15
  /\ answer.body[1].score > answer.body[15].score
  /\ \E x \in accepted : x.score < answer.body[15].score

(***************************************************************************)
(* Roster normalization: the fallback chains                               *)
(***************************************************************************)
\* the entry has the shape of the matchup endpoint: no name on the entry, a
\* player nested in playerPoolEntry
matchupShape(entry) ==
  /\ ~isTeamsShape(entry)
  /\ entry.playerPoolEntry # None
  /\ entry.playerPoolEntry[1].player # None

\* the player nested in a matchup-shape entry
nested(entry) == entry.playerPoolEntry[1].player[1]

\* the slots dedicated to one position
DedicatedSlots == {0, 2, 4, 6, 16, 17}

\* the labels that name one position
PositionLabels == StandardPositions \cup {"D/ST"}

\* some returned record has these values
returned(name, team, starter) ==
  { i \in 1..Len(result.value) :
      /\ result.value[i].playerName = name
      /\ result.value[i].nflTeam = team
      /\ result.value[i].isStarter = starter }

\* C21: a matchup-shape entry with a full name F, a team id T of the NFL
\* team table and a dedicated position slot S (0, 2, 4, 6, 16, 17) comes
\* out with playerName F, nflTeam the table's abbreviation of T, the
\* player's position (its defaultPosition when that names a position, and
\* never 'N/A') and isStarter true; 'A. Player' of team 9 in slot 2 with
\* default position RB comes out as GB, RB.
C21_MatchupEntryNormalized ==
  step = "done" =>
    \A i \in 1..Len(roster) :
      ( /\ matchupShape(roster[i])
        /\ TruthyStr(nested(roster[i]).fullName)
        /\ TruthyNum(nested(roster[i]).proTeamId)
        /\ nested(roster[i]).proTeamId[1] \in DOMAIN NFL_TEAM_NAMES
        /\ roster[i].lineupSlotId # None
        /\ roster[i].lineupSlotId[1] \in DedicatedSlots )
      => \E j \in returned(nested(roster[i]).fullName,
                           Some(NFL_TEAM_NAMES[nested(roster[i]).proTeamId[1]]), TRUE) :
           /\ result.value[j].lineupSlotId = roster[i].lineupSlotId[1]
           /\ result.value[j].position # Some("N/A")
           /\ (/\ nested(roster[i]).defaultPosition # None
               /\ nested(roster[i]).defaultPosition[1] \in PositionLabels)
              => result.value[j].position = nested(roster[i]).defaultPosition
           /\ (/\ nested(roster[i]).fullName = Some("A. Player")
               /\ nested(roster[i]).proTeamId = Some(9)
               /\ roster[i].lineupSlotId = Some(2)
               /\ nested(roster[i]).defaultPosition = Some("RB"))
              => /\ result.value[j].nflTeam = Some("GB")
                 /\ result.value[j].position = Some("RB")

\* the example entry was normalized
C21_Witness ==
  /\ step = "done"
  /\ Len(roster) = 1
  /\ matchupShape(roster[1])
  /\ nested(roster[1]).fullName = Some("A. Player")
  /\ nested(roster[1]).proTeamId = Some(9)
  /\ nested(roster[1]).defaultPosition = Some("RB")
  /\ roster[1].lineupSlotId = Some(2)
  /\ ~result.threw
  /\ result.value[1].playerName = Some("A. Player")
  /\ result.value[1].nflTeam = Some("GB")
  /\ result.value[1].position = Some("RB")
  /\ result.value[1].isStarter

\* the entry exposes no player object at any location the code looks at, no
\* name-like field and no team id
bare(entry) ==
  /\ ~isTeamsShape(entry)
  /\ entry.fullName = None /\ entry.firstName = None /\ entry.lastName = None
  /\ Opt(entry.playerPoolEntry, "player") = None
  /\ entry.player = None
  /\ entry.proTeamId = None /\ entry.proTeam = None /\ entry.opponentProTeamId = None

\* C22: an entry that exposes no player object at any known location, no
\* name-like fields and no team id normalizes to playerName 'Empty Slot',
\* position 'N/A', totalPoints 0 and projectedPoints 0, without raising.
C22_BareEntryDefaults ==
  step = "done" =>
    /\ (\E i \in 1..Len(roster) : bare(roster[i])) => ~result.threw
    /\ Len(roster) = 1 /\ bare(roster[1]) =>
         /\ Len(result.value) = 1
         /\ result.value[1].playerName = Some("Empty Slot")
         /\ result.value[1].position = Some("N/A")
         /\ result.value[1].totalPoints = 0
         /\ result.value[1].projectedPoints = 0

\* the part of C22 that the code keeps: the name, the position, the bench
\* slot, and the points of an entry without point fields
BareEntryNameAndPosition ==
  step = "done" /\ Len(roster) = 1 /\ bare(roster[1]) =>
    /\ ~result.threw
    /\ result.value[1].playerName = Some("Empty Slot")
    /\ result.value[1].position = Some("N/A")
    /\ result.value[1].lineupSlotId = BENCH
    /\ (/\ roster[1].totalPoints = None /\ roster[1].points = None
        /\ roster[1].appliedStatTotal = None) => result.value[1].totalPoints = 0
    /\ (roster[1].projectedPointBreakdown = None /\ roster[1].projectedPoints = None)
       => result.value[1].projectedPoints = 0

located(entry) ==
  IF entry.player # None THEN entry.player
  ELSE IF Opt(entry.playerPoolEntry, "player") # None
       THEN entry.playerPoolEntry[1].player
  ELSE IF isTeamsShape(entry) THEN Some(entry)
  ELSE Opt(Opt(entry.entry, "playerPoolEntry"), "player")

\* the abbreviation of a player object's team, 'FA' without a known team
teamOf(pl) ==
  LET id == Coalesce(Opt(pl, "proTeamId"), Opt(pl, "proTeam"))
  IN IF knownTeam(id) THEN TeamName(id[1]) ELSE Some("FA")

\* C24: the player object is the first that resolves among entry.player,
\* entry.playerPoolEntry.player, the entry itself (when it has name-like
\* fields) and entry.entry.playerPoolEntry.player; an earlier location
\* supplies the player data when an entry carries several, and the slot is
\* empty when none resolves.
C24_LocationOrder ==
  step = "done" /\ Len(roster) = 1 =>
    /\ ~result.threw
    /\ result.value[1].playerId = Opt(located(roster[1]), "id")
    /\ result.value[1].nflTeam = teamOf(located(roster[1]))
    /\ located(roster[1]) = None <=> player(roster[1]) = None

\* what the code does instead: the entry itself first, then
\* entry.playerPoolEntry.player, then entry.player, and nothing else
LocationOrderOfTheCode ==
  step = "done" /\ Len(roster) = 1 =>
    LET e == roster[1]
        found == IF isTeamsShape(e) THEN Some(e)
                 ELSE IF Opt(e.playerPoolEntry, "player") # None
                      THEN e.playerPoolEntry[1].player
                 ELSE e.player
    IN /\ ~result.threw
       /\ result.value[1].playerId = Opt(found, "id")
       /\ result.value[1].nflTeam = teamOf(found)
       /\ found = None => result.value[1].playerName = Some("Empty Slot")

\* the slot a rosteredPosition label maps to, None without a known label
labelSlot(entry) ==
  IF TruthyStr(entry.rosteredPosition) /\ entry.rosteredPosition[1] \in DOMAIN posMap
  THEN Some(posMap[entry.rosteredPosition[1]])
  ELSE None

\* the first value present among entry.lineupSlotId, entry.slot,
\* entry.lineupSlot and entry.slotCategoryId, else the slot of the label,
\* else bench
firstSlot(entry) ==
  Coalesce(entry.lineupSlotId,
    Coalesce(entry.slot,
      Coalesce(entry.lineupSlot,
        Coalesce(entry.slotCategoryId,
          Coalesce(labelSlot(entry), Some(BENCH))))))[1]

\* C25: the lineup slot id of a record is the first value present among
\* entry.lineupSlotId, entry.slot, entry.lineupSlot and
\* entry.slotCategoryId, otherwise the slot mapped from rosteredPosition,
\* otherwise bench (20), for every entry shape; an entry with a numeric
\* lineupSlotId is never defaulted to bench.
C25_SlotFromFirstField ==
  step = "done" /\ Len(roster) = 1 =>
    /\ ~result.threw
    /\ result.value[1].lineupSlotId = firstSlot(roster[1])
    /\ result.value[1].slotCategoryId = firstSlot(roster[1])
    /\ (roster[1].lineupSlotId # None /\ roster[1].lineupSlotId[1] # BENCH)
         => result.value[1].lineupSlotId # BENCH

\* what the code does instead: the label alone for an entry with a name of
\* its own, lineupSlotId alone for a player in playerPoolEntry, lineupSlotId
\* then slot for a player in player, and bench without a player
SlotOfTheCode ==
  step = "done" /\ Len(roster) = 1 =>
    LET e == roster[1]
    IN result.value[1].lineupSlotId =
         IF isTeamsShape(e) THEN Coalesce(labelSlot(e), Some(BENCH))[1]
         ELSE IF Opt(e.playerPoolEntry, "player") # None
              THEN Coalesce(e.lineupSlotId, Some(BENCH))[1]
         ELSE IF e.player # None
              THEN Coalesce(e.lineupSlotId, Coalesce(e.slot, Some(BENCH)))[1]
         ELSE BENCH

(***************************************************************************)
(* Roster normalization: projected points                                  *)
(***************************************************************************)
\* the objects a breakdown is looked for on, in the order of lines 140-159:
\* the player found, the entry, the player nested in playerPoolEntry
breakdownHolders(entry) ==
  << player(entry), Some(entry), Opt(entry.playerPoolEntry, "player") >>

\* the breakdowns among them that satisfy keep, in that order
breakdowns(entry, keep(_)) ==
  LET h == breakdownHolders(entry)
      at3 == IF Opt(h[3], "projectedPointBreakdown") # None
                /\ keep(h[3][1].projectedPointBreakdown[1])
             THEN << h[3][1].projectedPointBreakdown[1] >> ELSE << >>
      at2 == IF Opt(h[2], "projectedPointBreakdown") # None
                /\ keep(h[2][1].projectedPointBreakdown[1])
             THEN << h[2][1].projectedPointBreakdown[1] >> ELSE << >>
      at1 == IF Opt(h[1], "projectedPointBreakdown") # None
                /\ keep(h[1][1].projectedPointBreakdown[1])
             THEN << h[1][1].projectedPointBreakdown[1] >> ELSE << >>
  IN at1 \o at2 \o at3

\* the first direct projectedPoints field of the entry, the player found and
\* the player nested in playerPoolEntry, 0 without any
directProjected(entry) ==
  Coalesce(entry.projectedPoints,
    Coalesce(Opt(player(entry), "projectedPoints"),
      Coalesce(Opt(Opt(entry.playerPoolEntry, "player"), "projectedPoints"),
               Some(0))))[1]

\* projectedPoints is the sum of the first breakdown that satisfies keep,
\* and the direct field without such a breakdown
projectedFrom(keep(_)) ==
  step = "done" /\ Len(roster) = 1 =>
    /\ ~result.threw
    /\ result.value[1].projectedPoints =
         IF breakdowns(roster[1], keep) # << >>
         THEN sumBreakdown(breakdowns(roster[1], keep)[1].stats)
         ELSE directProjected(roster[1])

\* C26 as stated: whenever a breakdown object is present at entry, player
\* or nested-player level, projectedPoints is the sum of its per-stat
\* values without the usesPoints key; only without any breakdown is it the
\* direct projectedPoints field, and 0 when that is absent too.
C26_BreakdownWheneverPresent == projectedFrom(LAMBDA b : TRUE)

\* C26 as the code has it: projectedPoints is the sum of the per-stat values
\* of the first breakdown whose usesPoints flag is truthy (player, entry,
\* nested player); a breakdown without the flag is passed over, and without
\* a flagged breakdown it is the direct projectedPoints field, else 0.
C26_BreakdownWhenUsesPoints == projectedFrom(LAMBDA b : b.usesPoints)

\* a nested player's flagged breakdown was summed although direct fields
\* were present, a value that is not a number counting 0
C26_Witness ==
  /\ step = "done"
  /\ Len(roster) = 1
  /\ matchupShape(roster[1])
  /\ roster[1].projectedPointBreakdown = None
  /\ nested(roster[1]).projectedPointBreakdown
       = Breakdown(TRUE, << Some(50), None, Some(31) >>)
  /\ nested(roster[1]).projectedPoints = Some(70)
  /\ ~result.threw
  /\ result.value[1].projectedPoints = 81

(***************************************************************************)
(* Roster normalization: team ids outside the table                        *)
(***************************************************************************)
\* the player's team id is missing, or is not an id of the table
teamUnknown(entry) ==
  nflTeamId(entry) = None \/ TeamName(nflTeamId(entry)[1]) = None

\* the opponent's team id is missing, or is not an id of the table
opponentUnknown(entry) ==
  opponentTeamId(entry) = None \/ TeamName(opponentTeamId(entry)[1]) = None

\* C27: a team id that is not in the team table resolves to a defined
\* fallback: nflTeam is 'FA' when the player's team id is missing or
\* unknown, and opponent is a defined value, never undefined, when the
\* opponent's team id is missing or unknown.
C27_UnknownTeamHasFallback ==
  step = "done" /\ Len(roster) = 1 /\ ~result.threw =>
    /\ teamUnknown(roster[1]) => result.value[1].nflTeam = Some("FA")
    /\ opponentUnknown(roster[1]) => result.value[1].opponent.kind # "undefined"

\* what the code does hold to: nflTeam is 'FA' for a missing or unknown
\* team id, and opponent is null for a missing or zero opponent id
UnknownTeamOfTheCode ==
  step = "done" /\ Len(roster) = 1 /\ ~result.threw =>
    /\ teamUnknown(roster[1]) => result.value[1].nflTeam = Some("FA")
    /\ ~TruthyNum(opponentTeamId(roster[1]))
         => result.value[1].opponent.kind = "null"
    /\ TruthyNum(opponentTeamId(roster[1])) /\ opponentUnknown(roster[1])
         => result.value[1].opponent.kind = "undefined"

(***************************************************************************)
(* Server: the connect handler when its own timer fires                    *)
(***************************************************************************)
\* the connect request in slot s was answered because its timer fired
connectTimedOut(s) ==
  /\ reqs[s].route = "connect"
  /\ reqs[s].pc = "done"
  /\ reqs[s].caught = TimerError.message

\* C28: when the connect handler's own 10-second timer wins the race
\* against the ESPN league-info call, the client receives status 400 with
\* the message 'ESPN API request timed out. Please try again.', not the
\* generic 'Failed to fetch league from ESPN...' message, and no league
\* record is created.
C28_ConnectTimerMessage ==
  \A s \in Slots :
    connectTimedOut(s) =>
      /\ reqs[s].status = 400
      /\ reqs[s].reply = "ESPN API request timed out. Please try again."
      /\ ~reqs[s].mutated

\* what the code does for it: status 400 and no league, with the message
\* of the last branch of the classification
ConnectTimerOfTheCode ==
  \A s \in Slots :
    connectTimedOut(s) =>
      /\ reqs[s].status = 400
      /\ reqs[s].reply = connectErrorMessage([message |-> "", status |-> None])
      /\ ~reqs[s].mutated

(***************************************************************************)
(* Trade suggestions: weak and strong positions                            *)
(***************************************************************************)
\* the weak and the strong positions of the user's team in the call
myNeeds ==
  LET need == needs(strengths(valuedRoster(find(call.espn.teams, call.userTeamId)[1],
                                           week), week), week)
  IN [weak |-> { TradePositions[need.weak[i]] : i \in 1..Len(need.weak) },
      strong |-> { TradePositions[need.strong[i]] : i \in 1..Len(need.strong) }]

\* C29: in every trade-suggestion computation the user's two weakest and
\* two strongest positions are disjoint and together are exactly
\* {QB, RB, WR, TE}; in every emitted suggestion the player the user gives
\* is at one of the strong positions, the player received is at one of the
\* weak positions, the two players have different positions, and the other
\* team is never the user's own team.
C29_WeakStrongPartition ==
  (answered("trade") /\ normalPath) =>
    /\ Cardinality(myNeeds.weak) = 2
    /\ Cardinality(myNeeds.strong) = 2
    /\ myNeeds.weak \cap myNeeds.strong = {}
    /\ myNeeds.weak \cup myNeeds.strong = {"QB", "RB", "WR", "TE"}
    /\ \A i \in 1..Len(answer.body) :
         /\ answer.body[i].emitted
         /\ answer.body[i].myPlayer.position = Some(answer.body[i].myStrongPosition)
         /\ answer.body[i].myStrongPosition \in myNeeds.strong
         /\ answer.body[i].theirPlayer.position = Some(answer.body[i].myWeakPosition)
         /\ answer.body[i].myWeakPosition \in myNeeds.weak
         /\ answer.body[i].myPlayer.position # answer.body[i].theirPlayer.position
         /\ Some(answer.body[i].teamId) # call.userTeamId
    /\ \A i \in 1..Len(answer.pairings) :
         /\ answer.pairings[i].myStrongPosition \in myNeeds.strong
         /\ answer.pairings[i].myWeakPosition \in myNeeds.weak
         /\ Some(answer.pairings[i].teamId) # call.userTeamId

\* suggestions were emitted with two other teams in the league, for a user
\* without a quarterback who gives a running back
C29_Witness ==
  /\ answered("trade")
  /\ normalPath
  /\ Len(call.espn.teams) = 3
  /\ Len(answer.body) > 0
  /\ "QB" \in myNeeds.weak
  /\ \E i \in 1..Len(answer.body) :
       /\ answer.body[i].myPlayer.position = Some("RB")
       /\ answer.body[i].teamId = 3

(***************************************************************************)
(* Server: set-team                                                        *)
(***************************************************************************)
\* a step of the set-team request in slot s: what it answers, and what it
\* does to the stored leagues
setTeamStep(s) ==
  LET r == reqs[s]
      q == reqs'[s]
      found == getLeagueById(r.id)
  IN (q.route = "setTeam" /\ q # r /\ q.user # None) =>
       /\ leagues' # leagues =>
            /\ r.pc = "updateUserTeam"
            /\ r.teamId \in Nat \ {0}
            /\ r.teamId \in r.teams
            /\ q.status = 200
       /\ r.pc = "updateUserTeam" =>
            /\ r.teamId \in r.teams
            /\ leagues' = { IF l.userId = r.user[1] /\ l.id = r.id
                            THEN [l EXCEPT !.userTeamId = Some(r.teamId)]
                            ELSE l : l \in leagues }
            /\ q.pc = "done" /\ q.status = 200
       /\ r.route # "setTeam" \/ r.pc = "done" =>
            IF q.teamId \in Nat \ {0}
            THEN q.pc = "getLeagueById"
            ELSE q.pc = "done" /\ q.status = 400
       /\ r.route = "setTeam" /\ r.pc = "getLeagueById" =>
            IF found = None THEN q.pc = "done" /\ q.status = 404
            ELSE IF found[1].userId # r.user[1] THEN q.pc = "done" /\ q.status = 403
            ELSE q.pc = "espnTeams"
       /\ r.route = "setTeam" /\ r.pc = "espnTeams" =>
            IF q.caught # "" THEN q.pc = "done" /\ q.status = 500
            ELSE IF q.teamId \notin q.teams THEN q.pc = "done" /\ q.status = 400
            ELSE q.pc = "updateUserTeam"
       /\ q.pc = "done" /\ q.status # 200 => leagues' = leagues

\* C30: set-team changes the stored user team only on full success:
\* updateUserTeam is called only with a positive integer teamId that is the
\* id of a team in the ESPN team list fetched during that same request; on
\* an invalid body, an unknown league, a foreign league, an ESPN failure or
\* timeout, or a teamId not in the list, the stored team is left unchanged
\* and the status is 400, 404, 403, 500 and 400 respectively.
C30_SetTeamOnlyOnSuccess == [][\A s \in Slots : setTeamStep(s)]_vars

\* one set-team request stored its team, found in the list it fetched, and
\* another was refused for a team that is not in its list
C30_Witness ==
  \E s, t \in Slots :
    /\ reqs[s].route = "setTeam" /\ reqs[s].pc = "done" /\ reqs[s].status = 200
    /\ reqs[s].mutated /\ reqs[s].teamId \in reqs[s].teams
    /\ \E l \in leagues : l.id = reqs[s].id /\ l.userTeamId = Some(reqs[s].teamId)
    /\ reqs[t].route = "setTeam" /\ reqs[t].pc = "done" /\ reqs[t].status = 400
    /\ reqs[t].teams # {} /\ reqs[t].teamId \notin reqs[t].teams
    /\ ~reqs[t].mutated

====
